---------------------------- MODULE Spec2Model ----------------------------
(***************************************************************************)
(* Model of the laundry pass booking data-access layer                     *)
(* (src/src/integration/LaundryDAO.js).                                    *)
(*                                                                         *)
(* The storage backend is one shared connection: every SQL statement is    *)
(* one atomic step on the tables, and statements of different requests     *)
(* interleave at the awaits.  The server clock, the database clock and     *)
(* the ISO date strings are all taken in one time zone (UTC).              *)
(*                                                                         *)
(* Time is counted in minutes since 2022-01-01 00:00; a date is the number *)
(* of days since 2022-01-01.                                               *)
(***************************************************************************)
EXTENDS Integers, Sequences, FiniteSets, Bags, TLC

(***************************************************************************)
(* Bounds of the model.                                                    *)
(***************************************************************************)
\* number of clock advances explored
MaxTicks == 2
\* public calls each concurrent request process issues
MaxCalls == 1
\* the largest account id a registration gives
MaxAccountID == 5

(***************************************************************************)
(* Program constants (LaundryDAO constructor).                             *)
(***************************************************************************)
activePassesAllowed == 1
totalMonthPassesAllowed == 6
lockDuration == 5

MinutesPerHour == 1 * 60
MinutesPerDay == 24 * 60

(***************************************************************************)
(* The calendar, as dayjs computes it from a date.                         *)
(***************************************************************************)
IsLeap(y) == (y % 4 = 0 /\ y % 100 # 0) \/ y % 400 = 0

DaysInYear(y) == IF IsLeap(y) THEN 366 ELSE 365

DaysInMonth(y, m) ==
    IF m = 1 THEN (IF IsLeap(y) THEN 29 ELSE 28)
    ELSE IF m \in {3, 5, 8, 10} THEN 30 ELSE 31

RECURSIVE YearFrom(_, _)
\* <<year, day of the year (0-based)>> of day d, counting from year y
YearFrom(y, d) == IF d < DaysInYear(y) THEN <<y, d>> ELSE YearFrom(y + 1, d - DaysInYear(y))

RECURSIVE MonthFrom(_, _, _)
\* <<month (0-based, as dayjs().month()), day of the month>> of 0-based day d of year y
MonthFrom(y, m, d) ==
    IF d < DaysInMonth(y, m) THEN <<m, d + 1>> ELSE MonthFrom(y, m + 1, d - DaysInMonth(y, m))

YearOf(d) == YearFrom(2022, d)[1]
DayOfYear(d) == YearFrom(2022, d)[2]
MonthOf(d) == MonthFrom(YearOf(d), 0, DayOfYear(d))[1]
DayOfMonth(d) == MonthFrom(YearOf(d), 0, DayOfYear(d))[2]
\* dayjs().day(): 0 = Sunday .. 6 = Saturday; 2022-01-01 is a Saturday
WeekdayOf(d) == (d + 6) % 7

\* first day of year y
RECURSIVE YearStart(_)
YearStart(y) == IF y = 2022 THEN 0 ELSE YearStart(y - 1) + DaysInYear(y - 1)

\* startOf('week') in the default locale: the Sunday on or before d
StartOfWeek(d) == d - WeekdayOf(d)

\* the string 'YYYY-MM-DD' of a date; two such strings compare as the tuples do
ISODate(d) == <<YearOf(d), MonthOf(d) + 1, DayOfMonth(d)>>

StrLess(a, b) ==
    \/ a[1] < b[1]
    \/ a[1] = b[1] /\ a[2] < b[2]
    \/ a[1] = b[1] /\ a[2] = b[2] /\ a[3] < b[3]

\* dayjs(date).week() of the weekOfYear plugin, default locale (yearStart = 1)
week(d) ==
    LET y == YearOf(d)
        nextYearStartDay == YearStart(y + 1)
        thisEndOfWeek == StartOfWeek(d) + 6
        yearStartWeek == StartOfWeek(YearStart(y))
    IN  IF MonthOf(d) = 11 /\ DayOfMonth(d) > 25 /\ nextYearStartDay <= thisEndOfWeek
        THEN 1
        ELSE ((d - yearStartWeek) \div 7) + 1

RECURSIVE MonthStart(_, _)
\* the first day of month m (0-based) of year y
MonthStart(y, m) == IF m = 0 THEN YearStart(y) ELSE MonthStart(y, m - 1) + DaysInMonth(y, m - 1)

\* The calendar of the days the model reaches, as tables.
Days == 0..(3 * 366)
Table(f) == f @@ [x \in {} |-> 0]
weekTable == Table([d \in Days |-> week(d)])
monthTable == Table([d \in Days |-> MonthOf(d)])
isoTable == Table([d \in Days |-> ISODate(d)])
yearTable == Table([d \in Days |-> YearOf(d)])

(***************************************************************************)
(* Static configuration and the values requests are drawn from.            *)
(***************************************************************************)
Standard == "Standard"
Administrator == "Administrator"

\* a time range 'HH-HH' is <<start hour, end hour>>
Range0712 == <<7, 12>>
Range1217 == <<12, 17>>
Range0912 == <<9, 12>>

\* rows of pass_schedule joined with pass
PassSchedule ==
    { [id |-> 1, room |-> 1, range |-> Range0712],
      [id |-> 2, room |-> 1, range |-> Range1217] }

\* The requests the model issues: <<username, room, date relative to the
\* server's today, range>>.  "nobody" is no account, room 2 and 09-12 are no
\* configured slot, -1 is yesterday, 14 is two weeks ahead and 371 is the
\* same week of the next year.
PassRequests ==
    ({"anna", "bert"} \X {1} \X {1} \X {Range0712, Range1217})
    \cup { <<"anna", 1, -1, Range0712>>, <<"anna", 1, 14, Range0712>>,
           <<"anna", 1, 371, Range0712>>,
           <<"nobody", 1, 1, Range0712>>, <<"nobody", 1, -1, Range0912>>,
           <<"bert", 1, 1, Range0912>> }
LockRequests ==
    ({"anna", "bert"} \X {1} \X {1} \X {Range0712, Range1217})
    \cup { <<"nobody", 1, 1, Range0712>>, <<"bert", 2, 1, Range0712>> }
CancelRequests ==
    { <<"anna", 1, 1, Range0712>>, <<"bert", 1, 1, Range1217>>,
      <<"admin", 1, 1, Range0712>>, <<"admin", 1, 371, Range0712>> }
UnlockRequests == {"anna", "bert", "nobody"}
DeleteRequests == { <<"admin", "bert">>, <<"anna", "bert">>, <<"admin", "nobody">> }
\* clock advances, in minutes
Jumps == {5, 180}

\* Wednesday 2022-06-15 10:00
StartNow == 165 * MinutesPerDay + 10 * MinutesPerHour

VARIABLES
    now,            \* the clock, minutes since the epoch
    ticks,          \* clock advances so far
    account,        \* rows of account joined with person:
                    \* [id, username, privilege, email, password]
    pass_booking,   \* bag of rows [date, account_id, pass_schedule_id]
    pass_lock,      \* bag of rows [lock_start, pass_date, account_id, pass_schedule_id]
    last,           \* the last public call that returned, with its result
    pc,             \* concurrent requests: the statement each request is at
    loc,            \* concurrent requests: the local variables of each request
    transaction,    \* the transaction the shared connection is in, with the rows
                    \* a rollback brings back
    res             \* the status codes of the HTTP responses sent to the last request

vars == <<now, ticks, account, pass_booking, pass_lock, last, pc, loc, transaction, res>>

\* the connection outside every transaction: pg connects in autocommit mode
NoTransaction == [state |-> "idle", pass_booking |-> EmptyBag, pass_lock |-> EmptyBag]

today == now \div MinutesPerDay
\* dayjs().hour()
currentHour == (now % MinutesPerDay) \div MinutesPerHour

(***************************************************************************)
(* Reads of the stored tables (private helpers of the DAO).                *)
(***************************************************************************)
\* the result of a query that found no person
NoPerson == [id |-> -1, username |-> "", privilege |-> "Invalid", email |-> "", password |-> ""]

\* _getPersonInfo: the account row of the username, or null
getPersonInfo(username) ==
    LET rows == {a \in account : a.username = username}
    IN  IF rows = {} THEN NoPerson ELSE CHOOSE a \in rows : TRUE

\* _getPassInfo: the pass_schedule id of (room, range), or -1
getPassInfo(roomNumber, passRange) ==
    LET rows == {s \in PassSchedule : s.room = roomNumber /\ s.range = passRange}
    IN  IF rows = {} THEN -1 ELSE (CHOOSE s \in rows : TRUE).id

\* parseInt(range.substring(3, 5)): the end hour of 'HH-HH'
endHourOf(range) == range[2]

\* _checkRangeHour: the end hour of the range has not passed on the server clock
checkRangeHour(range) == endHourOf(range) >= currentHour

\* the rows of pass_booking on a cell
BookingRowsOn(date, passScheduleID) ==
    {b \in BagToSet(pass_booking) : b.date = date /\ b.pass_schedule_id = passScheduleID}

\* mutant: the query compares the date with > for =
getBookedPassID_WrongDate(date, passScheduleID) ==
    IF {b \in BagToSet(pass_booking) : b.date > date /\ b.pass_schedule_id = passScheduleID} = {}
    THEN -1 ELSE 1

\* _getBookedPassID: -1 when the cell has no booking row, else the id of one
\* (row ids are not kept: every row id reads as 1)
getBookedPassID(date, passScheduleID) ==
    IF BookingRowsOn(date, passScheduleID) = {} THEN -1 ELSE 1

\* mutant: the lock duration is taken in hours for minutes
LockIsLive_Hours(l) == now - l.lock_start <= lockDuration * MinutesPerHour

\* (NOW() - lock_start) <= ($1 * 60) * INTERVAL '1' second
LockIsLive(l) == now - l.lock_start <= lockDuration

\* the rows the query of _getLockOwner returns
LiveLockRowsOn(date, passScheduleID) ==
    {l \in BagToSet(pass_lock) :
        l.pass_date = date /\ l.pass_schedule_id = passScheduleID /\ LockIsLive(l)}

\* _getLockOwner: -1 when no row, else the account of rows[0]; the query has no
\* ORDER BY, so rows[0] is any of the rows
getLockOwner(date, passScheduleID) ==
    IF LiveLockRowsOn(date, passScheduleID) = {} THEN {-1}
    ELSE {l.account_id : l \in LiveLockRowsOn(date, passScheduleID)}

\* the range of a pass_schedule id
rangeOfSchedule(passScheduleID) == (CHOOSE s \in PassSchedule : s.id = passScheduleID).range
roomOfSchedule(passScheduleID) == (CHOOSE s \in PassSchedule : s.id = passScheduleID).room

\* pass.range >= $2 on zero-padded 'HH-HH' strings
RangeGeq(a, b) == a[1] > b[1] \/ (a[1] = b[1] /\ a[2] >= b[2])

\* _getActivePasses: COUNT grouped by booking id, so rows[0].booking_count is 1
\* when the query returns any row and the result is -1 when it returns none
getActivePasses(accountID, range) ==
    LET rows == {b \in BagToSet(pass_booking) :
                    /\ b.account_id = accountID
                    /\ b.date >= today
                    /\ RangeGeq(rangeOfSchedule(b.pass_schedule_id), range)}
    IN  IF rows = {} THEN -1 ELSE 1

\* _monthStartAndEndDate: the second and the last day of the month, in the
\* server's current year
monthStartAndEndDate(month) ==
    LET y == yearTable[today]
        first == MonthStart(y, month)
    IN  [startMonthDate |-> first + 1, endMonthDate |-> first + DaysInMonth(y, month) - 1]

\* _getPeriodBookedPasses: COUNT grouped by booking id: 1 when any row, else 0
getPeriodBookedPasses(accountID, startPeriod, endPeriod) ==
    LET rows == {b \in BagToSet(pass_booking) :
                    b.account_id = accountID /\ b.date >= startPeriod /\ b.date <= endPeriod}
    IN  IF rows = {} THEN 0 ELSE 1

(***************************************************************************)
(* The checks of bookPass and lockPass, on the values the call has read.   *)
(* r holds: date, currentDate, currentWeek, dateWeek, personInfo,          *)
(* passScheduleID, checkRange, bookedPassID, lockOwnerID,                  *)
(* activePassesCount, periodBookedPasses.                                  *)
(***************************************************************************)
\* mutant: the active-pass check is made before the booked and locked checks
bookPassDecision_ActiveFirst(r) ==
    IF r.currentWeek > r.dateWeek \/ r.dateWeek > r.currentWeek + 1 THEN "InvalidDate"
    ELSE IF StrLess(isoTable[r.date], isoTable[r.currentDate]) THEN "InvalidDate"
    ELSE IF r.personInfo = NoPerson THEN "InvalidUser"
    ELSE IF r.passScheduleID = -1 THEN "InvalidPassInfo"
    ELSE IF ~r.checkRange THEN "InvalidPassInfo"
    ELSE IF r.activePassesCount >= activePassesAllowed THEN "ExistentActivePass"
    ELSE IF r.bookedPassID # -1 THEN "BookedPass"
    ELSE IF r.lockOwnerID # r.personInfo.id /\ r.lockOwnerID # -1 THEN "LockedPass"
    ELSE IF r.periodBookedPasses >= totalMonthPassesAllowed THEN "PassCountExceeded"
    ELSE "OK"

\* mutant: a live lock of the caller itself stops the call too
bookPassDecision_AnyLock(r) ==
    IF r.currentWeek > r.dateWeek \/ r.dateWeek > r.currentWeek + 1 THEN "InvalidDate"
    ELSE IF StrLess(isoTable[r.date], isoTable[r.currentDate]) THEN "InvalidDate"
    ELSE IF r.personInfo = NoPerson THEN "InvalidUser"
    ELSE IF r.passScheduleID = -1 THEN "InvalidPassInfo"
    ELSE IF ~r.checkRange THEN "InvalidPassInfo"
    ELSE IF r.bookedPassID # -1 THEN "BookedPass"
    ELSE IF r.lockOwnerID # -1 THEN "LockedPass"
    ELSE IF r.activePassesCount >= activePassesAllowed THEN "ExistentActivePass"
    ELSE IF r.periodBookedPasses >= totalMonthPassesAllowed THEN "PassCountExceeded"
    ELSE "OK"

bookPassDecision(r) ==
    IF r.currentWeek > r.dateWeek \/ r.dateWeek > r.currentWeek + 1 THEN "InvalidDate"
    ELSE IF StrLess(isoTable[r.date], isoTable[r.currentDate]) THEN "InvalidDate"
    ELSE IF r.personInfo = NoPerson THEN "InvalidUser"
    ELSE IF r.passScheduleID = -1 THEN "InvalidPassInfo"
    ELSE IF ~r.checkRange THEN "InvalidPassInfo"
    ELSE IF r.bookedPassID # -1 THEN "BookedPass"
    ELSE IF r.lockOwnerID # r.personInfo.id /\ r.lockOwnerID # -1 THEN "LockedPass"
    ELSE IF r.activePassesCount >= activePassesAllowed THEN "ExistentActivePass"
    ELSE IF r.periodBookedPasses >= totalMonthPassesAllowed THEN "PassCountExceeded"
    ELSE "OK"

\* mutant: a live lock of the caller itself does not stop the call
lockPassDecision_NoSelfCheck(r) ==
    IF r.personInfo = NoPerson THEN "false"
    ELSE IF r.passScheduleID = -1 THEN "false"
    ELSE IF ~r.checkRange THEN "false"
    ELSE IF r.bookedPassID # -1 THEN "false"
    ELSE IF r.lockOwnerID # r.personInfo.id /\ r.lockOwnerID # -1 THEN "false"
    ELSE IF r.activePassesCount >= activePassesAllowed THEN "false"
    ELSE "true"

lockPassDecision(r) ==
    IF r.personInfo = NoPerson THEN "false"
    ELSE IF r.passScheduleID = -1 THEN "false"
    ELSE IF ~r.checkRange THEN "false"
    ELSE IF r.bookedPassID # -1 THEN "false"
    ELSE IF r.lockOwnerID # r.personInfo.id /\ r.lockOwnerID # -1 THEN "false"
    ELSE IF r.lockOwnerID = r.personInfo.id THEN "false"
    ELSE IF r.activePassesCount >= activePassesAllowed THEN "false"
    ELSE "true"

\* what a call of bookPass or lockPass reads when all its reads see one state
ReadsOf(username, roomNumber, date, passRange, lockOwnerID) ==
    LET personInfo == getPersonInfo(username)
        passScheduleID == getPassInfo(roomNumber, passRange)
        period == monthStartAndEndDate(monthTable[date])
    IN  [ date |-> date,
          currentDate |-> today,
          currentWeek |-> weekTable[today],
          dateWeek |-> weekTable[date],
          personInfo |-> personInfo,
          passScheduleID |-> passScheduleID,
          checkRange |-> checkRangeHour(passRange),
          bookedPassID |-> getBookedPassID(date, passScheduleID),
          lockOwnerID |-> lockOwnerID,
          activePassesCount |-> getActivePasses(personInfo.id, passRange),
          periodBookedPasses |->
              getPeriodBookedPasses(personInfo.id, period.startMonthDate, period.endMonthDate) ]

(***************************************************************************)
(* Writes.                                                                 *)
(***************************************************************************)
\* the bag B without the rows in the set dropped
BagWithout(B, dropped) == [x \in DOMAIN B \ dropped |-> B[x]]

\* mutant: the delete matches no row
deleteLockQuery_NoRow(locks, accountID) == locks

\* DELETE FROM pass_lock WHERE account_id = $1
deleteLockQuery(locks, accountID) ==
    BagWithout(locks, {l \in DOMAIN locks : l.account_id = accountID})

\* INSERT INTO pass_lock(lock_start, pass_date, account_id, pass_schedule_id) VALUES (NOW(), ..)
addLockQuery(locks, date, accountID, passScheduleID) ==
    locks (+) SetToBag({[lock_start |-> now, pass_date |-> date,
                         account_id |-> accountID, pass_schedule_id |-> passScheduleID]})

\* INSERT INTO pass_booking(date, account_id, pass_schedule_id)
insertBookingQuery(bookings, date, accountID, passScheduleID) ==
    bookings (+) SetToBag({[date |-> date, account_id |-> accountID,
                            pass_schedule_id |-> passScheduleID]})

\* the cells on which an account has lock rows
LockCellsOf(accountID) ==
    {<<l.pass_date, l.pass_schedule_id>> : l \in {x \in BagToSet(pass_lock) : x.account_id = accountID}}

\* new BookingDTO(date, roomNumber, passRange, statusCode)
BookingDTO(date, roomNumber, passRange, statusCode) ==
    [date |-> date, roomNumber |-> roomNumber, passRange |-> passRange,
     statusCode |-> statusCode]

\* new BookingDTO(emptyParamEnum.Date, emptyParamEnum.RoomNumber,
\* emptyParamEnum.PassRange, statusCode): the DTO of a call that gives no booking
EmptyBookingDTO(statusCode) == BookingDTO(-1, 0, <<0, 0>>, statusCode)

\* the DTO bookPass returns with a status
bookPassDTO(date, roomNumber, passRange, status) ==
    IF status = "OK" THEN BookingDTO(date, roomNumber, passRange, status)
    ELSE EmptyBookingDTO(status)

\* the record of a public call that has returned; dto is the BookingDTO of the
\* calls that return one
Returned(op, username, roomNumber, date, passRange, result, released) ==
    [op |-> op, user |-> username, room |-> roomNumber, date |-> date,
     range |-> passRange, result |-> result, released |-> released,
     dto |-> IF op = "bookPass" THEN bookPassDTO(date, roomNumber, passRange, result)
             ELSE EmptyBookingDTO("none")]

NoCall == Returned("none", "", 0, 0, <<0, 0>>, "", {})

(***************************************************************************)
(* The public operations, each run to its end without interleaving.        *)
(***************************************************************************)
\* mutant: the caller's lock is released before the checks are made
bookPass_UnlockFirst(username, roomNumber, date, passRange) ==
    \E lockOwnerID \in getLockOwner(date, getPassInfo(roomNumber, passRange)) :
        LET r == ReadsOf(username, roomNumber, date, passRange, lockOwnerID)
            status == bookPassDecision(r)
        IN  /\ IF status = "OK"
               THEN pass_booking' = insertBookingQuery(pass_booking, date,
                                           r.personInfo.id, r.passScheduleID)
               ELSE UNCHANGED pass_booking
            /\ pass_lock' = deleteLockQuery(pass_lock, r.personInfo.id)
            /\ last' = Returned("bookPass", username, roomNumber, date, passRange, status,
                                LockCellsOf(r.personInfo.id))
            /\ UNCHANGED <<now, ticks, account, pc, loc, transaction, res>>

\* mutant: the caller's locks stay after the booking is inserted
bookPass_NoUnlock(username, roomNumber, date, passRange) ==
    \E lockOwnerID \in getLockOwner(date, getPassInfo(roomNumber, passRange)) :
        LET r == ReadsOf(username, roomNumber, date, passRange, lockOwnerID)
            status == bookPassDecision(r)
        IN  /\ IF status = "OK"
               THEN pass_booking' = insertBookingQuery(pass_booking, date,
                                           r.personInfo.id, r.passScheduleID)
               ELSE UNCHANGED pass_booking
            /\ UNCHANGED pass_lock
            /\ last' = Returned("bookPass", username, roomNumber, date, passRange, status,
                                IF status = "OK" THEN LockCellsOf(r.personInfo.id) ELSE {})
            /\ UNCHANGED <<now, ticks, account, pc, loc, transaction, res>>

LaundryDAO_bookPass(username, roomNumber, date, passRange) ==
    \E lockOwnerID \in getLockOwner(date, getPassInfo(roomNumber, passRange)) :
        LET r == ReadsOf(username, roomNumber, date, passRange, lockOwnerID)
            status == bookPassDecision(r)
        IN  /\ IF status = "OK"
               THEN /\ pass_booking' = insertBookingQuery(pass_booking, date,
                                           r.personInfo.id, r.passScheduleID)
                    /\ pass_lock' = deleteLockQuery(pass_lock, r.personInfo.id)
               ELSE UNCHANGED <<pass_booking, pass_lock>>
            /\ last' = Returned("bookPass", username, roomNumber, date, passRange, status,
                                IF status = "OK" THEN LockCellsOf(r.personInfo.id) ELSE {})
            /\ UNCHANGED <<now, ticks, account, pc, loc, transaction>>

\* bookPass called directly: no response is sent
bookPass(username, roomNumber, date, passRange) ==
    LaundryDAO_bookPass(username, roomNumber, date, passRange) /\ UNCHANGED res

lockPass(username, roomNumber, date, passRange) ==
    \E lockOwnerID \in getLockOwner(date, getPassInfo(roomNumber, passRange)) :
        LET r == ReadsOf(username, roomNumber, date, passRange, lockOwnerID)
            result == lockPassDecision(r)
        IN  /\ IF result = "true"
               THEN pass_lock' = addLockQuery(deleteLockQuery(pass_lock, r.personInfo.id),
                                              date, r.personInfo.id, r.passScheduleID)
               ELSE UNCHANGED pass_lock
            /\ last' = Returned("lockPass", username, roomNumber, date, passRange, result,
                                IF result = "true" THEN LockCellsOf(r.personInfo.id) ELSE {})
            /\ UNCHANGED <<now, ticks, account, pass_booking, pc, loc, transaction, res>>

\* mutant: a delete that removes no row is reported as a failure
unlockPass_FalseWithoutLock(username) ==
    LET personInfo == getPersonInfo(username)
    IN  /\ IF personInfo = NoPerson
           THEN UNCHANGED pass_lock
           ELSE pass_lock' = deleteLockQuery(pass_lock, personInfo.id)
        /\ last' = Returned("unlockPass", username, 0, 0, <<0, 0>>,
                            IF personInfo = NoPerson \/ LockCellsOf(personInfo.id) = {}
                            THEN "false" ELSE "true",
                            LockCellsOf(personInfo.id))
        /\ UNCHANGED <<now, ticks, account, pass_booking, pc, loc, transaction, res>>

unlockPass(username) ==
    LET personInfo == getPersonInfo(username)
    IN  /\ IF personInfo = NoPerson
           THEN UNCHANGED pass_lock
           ELSE pass_lock' = deleteLockQuery(pass_lock, personInfo.id)
        /\ last' = Returned("unlockPass", username, 0, 0, <<0, 0>>,
                            IF personInfo = NoPerson THEN "false" ELSE "true",
                            LockCellsOf(personInfo.id))
        /\ UNCHANGED <<now, ticks, account, pass_booking, pc, loc, transaction, res>>

\* mutant: the DELETE does not look at the owner of the booking
cancelBookingQuery_AnyOwner(date, passScheduleID, privilegeID, accountID) ==
    {b \in BagToSet(pass_booking) :
        b.date = date /\ date >= today /\ b.pass_schedule_id = passScheduleID}

\* the rows the DELETE of cancelBookedPass removes
cancelBookingQuery(date, passScheduleID, privilegeID, accountID) ==
    {b \in BagToSet(pass_booking) :
        /\ b.date = date
        /\ date >= today
        /\ b.pass_schedule_id = passScheduleID
        /\ IF privilegeID # Administrator THEN b.account_id = accountID ELSE TRUE}

cancelBookedPass(username, roomNumber, date, passRange) ==
    LET personInfo == getPersonInfo(username)
        passScheduleID == getPassInfo(roomNumber, passRange)
        rows == cancelBookingQuery(date, passScheduleID, personInfo.privilege, personInfo.id)
        result ==
            IF personInfo = NoPerson THEN "false"
            ELSE IF passScheduleID = -1 THEN "false"
            ELSE IF ~checkRangeHour(passRange) /\ personInfo.privilege # Administrator THEN "false"
            ELSE IF rows # {} THEN "true" ELSE "false"
    IN  /\ IF result = "true"
           THEN pass_booking' = BagWithout(pass_booking, rows)
           ELSE UNCHANGED pass_booking
        /\ last' = Returned("cancelBookedPass", username, roomNumber, date, passRange, result, {})
        /\ UNCHANGED <<now, ticks, account, pass_lock, pc, loc, transaction, res>>

\* mutant: the bookings of the removed account stay
deleteUser_KeepBookings(username, userToBeRemoved) ==
    LET adminInfo == getPersonInfo(username)
        userInfo == getPersonInfo(userToBeRemoved)
        theirs == {b \in DOMAIN pass_booking : b.account_id = userInfo.id}
        result ==
            IF adminInfo = NoPerson THEN "false"
            ELSE IF adminInfo.privilege # Administrator THEN "false"
            ELSE IF userInfo = NoPerson THEN "false"
            ELSE "true"
    IN  /\ IF result = "true"
           THEN /\ pass_booking' = pass_booking
                /\ account' = account \ {userInfo}
           ELSE UNCHANGED <<pass_booking, account>>
        /\ last' = Returned("deleteUser", username, 0, 0, <<0, 0>>, result, {})
        /\ UNCHANGED <<now, ticks, pass_lock, pc, loc, transaction, res>>

\* deleteUser
deleteUser(username, userToBeRemoved) ==
    LET adminInfo == getPersonInfo(username)
        userInfo == getPersonInfo(userToBeRemoved)
        theirs == {b \in DOMAIN pass_booking : b.account_id = userInfo.id}
        result ==
            IF adminInfo = NoPerson THEN "false"
            ELSE IF adminInfo.privilege # Administrator THEN "false"
            ELSE IF userInfo = NoPerson THEN "false"
            ELSE "true"
    IN  /\ IF result = "true"
           THEN /\ pass_booking' = BagWithout(pass_booking, theirs)
                /\ account' = account \ {userInfo}
           ELSE UNCHANGED <<pass_booking, account>>
        /\ last' = Returned("deleteUser", username, 0, 0, <<0, 0>>, result, {})
        /\ UNCHANGED <<now, ticks, pass_lock, pc, loc, transaction, res>>

\* the clock advances
Tick ==
    /\ ticks < MaxTicks
    /\ \E j \in Jumps : now' = now + j
    /\ ticks' = ticks + 1
    /\ UNCHANGED <<account, pass_booking, pass_lock, last, pc, loc, transaction, res>>

(***************************************************************************)
(* The same operations as concurrent requests on the shared connection:    *)
(* each request runs one storage statement per step, and the statements of *)
(* the requests interleave at the awaits.                                  *)
(***************************************************************************)
Procs == {1, 2}

\* the requests the concurrent processes issue: <<username, room, date offset, range>>
ConcRequests == {"anna", "bert"} \X {1} \X {1} \X {Range0712, Range1217}

\* the local variables of a request that has not started
IdleLoc ==
    [ op |-> "none", user |-> "", room |-> 0, range |-> <<0, 0>>, calls |-> 0,
      date |-> 0, currentDate |-> 0, currentWeek |-> 0, dateWeek |-> 0,
      personInfo |-> NoPerson, passScheduleID |-> -1, checkRange |-> FALSE,
      startMonthDate |-> 0, endMonthDate |-> 0,
      bookedPassID |-> -1, lockOwnerID |-> -1, activePassesCount |-> -1,
      periodBookedPasses |-> 0, unlockInfo |-> NoPerson, released |-> {} ]

\* the reads a request has not made yet, as values that stop no check
Unread(r) ==
    [r EXCEPT !.checkRange = TRUE, !.bookedPassID = -1, !.lockOwnerID = -1,
              !.activePassesCount = -1, !.periodBookedPasses = 0]

\* the request of process p returns result
Return(p, r, result) ==
    /\ pc' = [pc EXCEPT ![p] = "idle"]
    /\ loc' = [loc EXCEPT ![p] = [IdleLoc EXCEPT !.calls = r.calls]]
    /\ last' = Returned(r.op, r.user, r.room, r.date, r.range, result, r.released)

\* a request enters bookPass or lockPass: the synchronous reads of the clock
Call(p, op, q) ==
    /\ pc[p] = "idle"
    /\ loc[p].calls < MaxCalls
    /\ pc' = [pc EXCEPT ![p] = "getPersonInfo"]
    /\ loc' = [loc EXCEPT ![p] =
                  [IdleLoc EXCEPT !.op = op, !.user = q[1], !.room = q[2],
                                  !.date = today + q[3], !.range = q[4],
                                  !.calls = loc[p].calls + 1,
                                  !.currentDate = today,
                                  !.currentWeek = weekTable[today],
                                  !.dateWeek = weekTable[today + q[3]]]]
    /\ UNCHANGED <<now, ticks, account, pass_booking, pass_lock, last, transaction, res>>

\* _getPersonInfo and _getPassInfo, the early returns, then _checkRangeHour and
\* _monthStartAndEndDate on the clock
StmtLookup(p) ==
    /\ pc[p] = "getPersonInfo"
    /\ LET period == monthStartAndEndDate(monthTable[loc[p].date])
           r == [loc[p] EXCEPT !.personInfo = getPersonInfo(loc[p].user),
                               !.passScheduleID = getPassInfo(loc[p].room, loc[p].range),
                               !.checkRange = checkRangeHour(loc[p].range),
                               !.startMonthDate = period.startMonthDate,
                               !.endMonthDate = period.endMonthDate]
           early == IF r.op = "bookPass" THEN bookPassDecision(Unread(r))
                    ELSE lockPassDecision(Unread(r))
       IN  IF early \in {"OK", "true"}
           THEN /\ pc' = [pc EXCEPT ![p] = "getBookedPassID"]
                /\ loc' = [loc EXCEPT ![p] = r]
                /\ UNCHANGED last
           ELSE Return(p, r, early)
    /\ UNCHANGED <<now, ticks, account, pass_booking, pass_lock, transaction, res>>

\* _getBookedPassID
StmtBookedPassID(p) ==
    /\ pc[p] = "getBookedPassID"
    /\ pc' = [pc EXCEPT ![p] = "getLockOwner"]
    /\ loc' = [loc EXCEPT ![p].bookedPassID =
                  getBookedPassID(loc[p].date, loc[p].passScheduleID)]
    /\ UNCHANGED <<now, ticks, account, pass_booking, pass_lock, last, transaction, res>>

\* _getLockOwner
StmtLockOwner(p) ==
    /\ pc[p] = "getLockOwner"
    /\ pc' = [pc EXCEPT ![p] = "getActivePasses"]
    /\ \E owner \in getLockOwner(loc[p].date, loc[p].passScheduleID) :
          loc' = [loc EXCEPT ![p].lockOwnerID = owner]
    /\ UNCHANGED <<now, ticks, account, pass_booking, pass_lock, last, transaction, res>>

\* _getActivePasses, and for lockPass the checks on what was read
StmtActivePasses(p) ==
    /\ pc[p] = "getActivePasses"
    /\ LET r == [loc[p] EXCEPT !.activePassesCount =
                    getActivePasses(loc[p].personInfo.id, loc[p].range)]
       IN  IF r.op = "bookPass"
           THEN /\ pc' = [pc EXCEPT ![p] = "getPeriodBookedPasses"]
                /\ loc' = [loc EXCEPT ![p] = r]
                /\ UNCHANGED last
           ELSE IF lockPassDecision(r) = "true"
           THEN /\ pc' = [pc EXCEPT ![p] = "unlockPass"]
                /\ loc' = [loc EXCEPT ![p] = r]
                /\ UNCHANGED last
           ELSE Return(p, r, "false")
    /\ UNCHANGED <<now, ticks, account, pass_booking, pass_lock, transaction, res>>

\* _getPeriodBookedPasses, and the checks of bookPass on what was read
StmtPeriodBookedPasses(p) ==
    /\ pc[p] = "getPeriodBookedPasses"
    /\ LET r == [loc[p] EXCEPT !.periodBookedPasses =
                    getPeriodBookedPasses(loc[p].personInfo.id,
                                          loc[p].startMonthDate, loc[p].endMonthDate)]
       IN  IF bookPassDecision(r) = "OK"
           THEN /\ pc' = [pc EXCEPT ![p] = "insertBooking"]
                /\ loc' = [loc EXCEPT ![p] = r]
                /\ UNCHANGED last
           ELSE Return(p, r, bookPassDecision(r))
    /\ UNCHANGED <<now, ticks, account, pass_booking, pass_lock, transaction, res>>

\* insertBookingQuery of bookPass
StmtInsertBooking(p) ==
    /\ pc[p] = "insertBooking"
    /\ pass_booking' = insertBookingQuery(pass_booking, loc[p].date,
                                          loc[p].personInfo.id, loc[p].passScheduleID)
    /\ pc' = [pc EXCEPT ![p] = "unlockPass"]
    /\ UNCHANGED <<now, ticks, account, pass_lock, last, loc, transaction, res>>

\* unlockPass called by bookPass or lockPass: its _getPersonInfo
StmtUnlockPersonInfo(p) ==
    /\ pc[p] = "unlockPass"
    /\ LET r == [loc[p] EXCEPT !.unlockInfo = getPersonInfo(loc[p].user)]
       IN  IF r.unlockInfo # NoPerson
           THEN /\ pc' = [pc EXCEPT ![p] = "deleteLock"]
                /\ loc' = [loc EXCEPT ![p] = r]
                /\ UNCHANGED last
           ELSE IF r.op = "lockPass"
           THEN /\ pc' = [pc EXCEPT ![p] = "addLock"]
                /\ loc' = [loc EXCEPT ![p] = r]
                /\ UNCHANGED last
           ELSE Return(p, r, "OK")
    /\ UNCHANGED <<now, ticks, account, pass_booking, pass_lock, transaction, res>>

\* unlockPass called by bookPass or lockPass: its deleteLockQuery
StmtDeleteLock(p) ==
    /\ pc[p] = "deleteLock"
    /\ pass_lock' = deleteLockQuery(pass_lock, loc[p].unlockInfo.id)
    /\ LET r == [loc[p] EXCEPT !.released = LockCellsOf(loc[p].unlockInfo.id)]
       IN  IF r.op = "lockPass"
           THEN /\ pc' = [pc EXCEPT ![p] = "addLock"]
                /\ loc' = [loc EXCEPT ![p] = r]
                /\ UNCHANGED last
           ELSE Return(p, r, "OK")
    /\ UNCHANGED <<now, ticks, account, pass_booking, transaction, res>>

\* addLockQuery of lockPass
StmtAddLock(p) ==
    /\ pc[p] = "addLock"
    /\ pass_lock' = addLockQuery(pass_lock, loc[p].date,
                                 loc[p].personInfo.id, loc[p].passScheduleID)
    /\ Return(p, loc[p], "true")
    /\ UNCHANGED <<now, ticks, account, pass_booking, transaction, res>>

(***************************************************************************)
(* The initial state: the registered accounts and empty tables.            *)
(***************************************************************************)
\* _generatePasswordHash: bcrypt.hash of the plain password (the salt left out)
generatePasswordHash(plainPassword) == <<"bcrypt", plainPassword>>

\* _verifyPasswordHash: bcrypt.compare
verifyPasswordHash(plainPassword, passwordHash) ==
    passwordHash = generatePasswordHash(plainPassword)

InitAccounts ==
    { [id |-> 1, username |-> "anna", privilege |-> Standard,
       email |-> "anna@home", password |-> generatePasswordHash("pw-anna")],
      [id |-> 2, username |-> "bert", privilege |-> Standard,
       email |-> "bert@home", password |-> generatePasswordHash("pw-bert")],
      [id |-> 3, username |-> "admin", privilege |-> Administrator,
       email |-> "admin@home", password |-> generatePasswordHash("pw-admin")] }

Init ==
    /\ now = StartNow
    /\ ticks = 0
    /\ account = InitAccounts
    /\ pass_booking = EmptyBag
    /\ pass_lock = EmptyBag
    /\ last = NoCall
    /\ pc = [p \in Procs |-> "idle"]
    /\ loc = [p \in Procs |-> IdleLoc]
    /\ transaction = NoTransaction
    /\ res = <<>>

Next ==
    \/ Tick
    \/ \E q \in PassRequests : bookPass(q[1], q[2], today + q[3], q[4])
    \/ \E q \in LockRequests : lockPass(q[1], q[2], today + q[3], q[4])
    \/ \E u \in UnlockRequests : unlockPass(u)
    \/ \E q \in CancelRequests : cancelBookedPass(q[1], q[2], today + q[3], q[4])
    \/ \E q \in DeleteRequests : deleteUser(q[1], q[2])

Spec == Init /\ [][Next]_vars

\* An account that has booked passes on earlier days of the month: one pass a
\* day on any of the days a week and more ago, each passed by now.
QuotaDays == {StartNow \div MinutesPerDay - k : k \in 7..13}
QuotaRequests ==
    { <<"anna", 1, 1, Range0712>>, <<"anna", 1, 1, Range1217>>, <<"bert", 1, 1, Range0712>> }

InitQuota ==
    /\ now = StartNow
    /\ ticks = 0
    /\ account = InitAccounts
    /\ pass_booking \in
          { SetToBag({[date |-> d, account_id |-> 1, pass_schedule_id |-> 1] : d \in S}) :
              S \in SUBSET QuotaDays }
    /\ pass_lock = EmptyBag
    /\ last = NoCall
    /\ pc = [p \in Procs |-> "idle"]
    /\ loc = [p \in Procs |-> IdleLoc]
    /\ transaction = NoTransaction
    /\ res = <<>>

NextQuota ==
    \/ Tick
    \/ \E q \in QuotaRequests : bookPass(q[1], q[2], today + q[3], q[4])
    \/ \E q \in QuotaRequests : cancelBookedPass(q[1], q[2], today + q[3], q[4])

SpecQuota == InitQuota /\ [][NextQuota]_vars

\* the concurrent requests
NextConc ==
    \/ Tick
    \/ \E p \in Procs, q \in ConcRequests : Call(p, "bookPass", q)
    \/ \E p \in Procs, q \in ConcRequests : Call(p, "lockPass", q)
    \/ \E p \in Procs : StmtLookup(p)
    \/ \E p \in Procs : StmtBookedPassID(p)
    \/ \E p \in Procs : StmtLockOwner(p)
    \/ \E p \in Procs : StmtActivePasses(p)
    \/ \E p \in Procs : StmtPeriodBookedPasses(p)
    \/ \E p \in Procs : StmtInsertBooking(p)
    \/ \E p \in Procs : StmtUnlockPersonInfo(p)
    \/ \E p \in Procs : StmtDeleteLock(p)
    \/ \E p \in Procs : StmtAddLock(p)

SpecConc == Init /\ [][NextConc]_vars

(***************************************************************************)
(* The schedule views.                                                     *)
(***************************************************************************)
\* dayjs().week(week): today moved by whole weeks to week number w
inWeek(w) == today + (w - weekTable[today]) * 7

\* dayjs().week(week).day(n): day n (1 = Monday .. 7 = the next Sunday) of that week
dayOfWeek(w, n) == StartOfWeek(inWeek(w)) + n

\* _weekStartAndEndDate
weekStartAndEndDate(w) == [startWeekDate |-> dayOfWeek(w, 1), endWeekDate |-> dayOfWeek(w, 7)]

\* _getWeekDates: the seven dates of the grid
getWeekDates(w) == {dayOfWeek(w, n) : n \in 1..7}

AccountIds == {a.id : a \in account}
usernameOf(accountID) == (CHOOSE a \in account : a.id = accountID).username

\* getSpecificBookingsQuery: the booking rows of the week, joined with account
getSpecificBookingsQuery(w) ==
    {b \in BagToSet(pass_booking) :
        /\ b.account_id \in AccountIds
        /\ b.date >= weekStartAndEndDate(w).startWeekDate
        /\ b.date <= weekStartAndEndDate(w).endWeekDate}

\* mutant: the live lock rows of every date
getLockedBookingsQuery_AnyDate ==
    {l \in BagToSet(pass_lock) : l.account_id \in AccountIds /\ LockIsLive(l)}

\* getLockedBookingsQuery: the live lock rows dated today or later, joined with account
getLockedBookingsQuery ==
    {l \in BagToSet(pass_lock) :
        l.account_id \in AccountIds /\ l.pass_date >= today /\ LockIsLive(l)}

\* the cells of the grid _buildPassesSchedule makes for week w
gridCells(w) == {<<s.room, d, s.range>> : s \in PassSchedule, d \in getWeekDates(w)}

\* _getPassesSchedule with _fillPassSchedule: the status of a cell of the grid
slotStatus(w, cell) ==
    IF \/ \E b \in getSpecificBookingsQuery(w) :
             /\ roomOfSchedule(b.pass_schedule_id) = cell[1]
             /\ b.date = cell[2]
             /\ rangeOfSchedule(b.pass_schedule_id) = cell[3]
       \/ \E l \in getLockedBookingsQuery :
             /\ roomOfSchedule(l.pass_schedule_id) = cell[1]
             /\ l.pass_date = cell[2]
             /\ rangeOfSchedule(l.pass_schedule_id) = cell[3]
    THEN "Taken" ELSE "Available"

\* getBookingQuery of getBookedPass: the active bookings of an account
getBookingQuery(accountID) ==
    {b \in BagToSet(pass_booking) :
        /\ b.account_id = accountID
        /\ b.date >= today
        /\ endHourOf(rangeOfSchedule(b.pass_schedule_id)) >= currentHour}

\* getResidentPasses: the statuses a cell can show to a resident; the caller's
\* booked pass is rows[0] of getBookingQuery, any of its rows
residentSlotStatus(username, w, cell) ==
    LET mine == getBookingQuery(getPersonInfo(username).id)
        self == {b \in mine : /\ roomOfSchedule(b.pass_schedule_id) = cell[1]
                              /\ b.date = cell[2]
                              /\ rangeOfSchedule(b.pass_schedule_id) = cell[3]}
    IN  (IF self # {} THEN {"SelfBooking"} ELSE {})
        \cup (IF mine = {} \/ mine # self THEN {slotStatus(w, cell)} ELSE {})

\* the weeks a resident may view (_checkWeekSchedule with offset 1)
checkWeekSchedule(w, offset) ==
    weekTable[today] - offset <= w /\ weekTable[today] + offset >= w

(***************************************************************************)
(* The sequential calls with the read of the caller's booked pass and with *)
(* lock requests for a day that has passed.                                *)
(***************************************************************************)
\* the DTOs getBookedPass can return: that of rows[0] of getBookingQuery, any of
\* its rows
getBookedPassDTOs(username) ==
    LET personInfo == getPersonInfo(username)
        rows == getBookingQuery(personInfo.id)
    IN  IF personInfo = NoPerson THEN {EmptyBookingDTO("InvalidUser")}
        ELSE IF rows = {} THEN {EmptyBookingDTO("NoBooking")}
        ELSE {BookingDTO(b.date, roomOfSchedule(b.pass_schedule_id),
                         rangeOfSchedule(b.pass_schedule_id), "OK") : b \in rows}

\* getBookedPass
LaundryDAO_getBookedPass(username) ==
    LET dtos == getBookedPassDTOs(username)
    IN  /\ \E dto \in dtos :
              last' = [Returned("getBookedPass", username, 0, 0, <<0, 0>>, dto.statusCode, {})
                          EXCEPT !.dto = dto]
        /\ UNCHANGED <<now, ticks, account, pass_booking, pass_lock, pc, loc, transaction>>

\* getBookedPass called directly: no response is sent
getBookedPass(username) ==
    LaundryDAO_getBookedPass(username) /\ UNCHANGED res

\* lock requests for yesterday
PastLockRequests == { <<"anna", 1, -1, Range0712>> }
GetBookedPassRequests == {"anna", "bert", "nobody"}

NextWide ==
    \/ Next
    \/ \E username \in GetBookedPassRequests : getBookedPass(username)
    \/ \E q \in PastLockRequests : lockPass(q[1], q[2], today + q[3], q[4])

SpecWide == Init /\ [][NextWide]_vars

(***************************************************************************)
(* The schedule views as public calls.                                     *)
(***************************************************************************)
\* getWeekNumber: dayjs().week() - 1
getWeekNumber == weekTable[today] - 1

\* the rows of getSpecificBookingsQuery on a cell <<room, date, range>> of the grid
bookingsOnCell(w, cell) ==
    {b \in getSpecificBookingsQuery(w) :
        /\ roomOfSchedule(b.pass_schedule_id) = cell[1]
        /\ b.date = cell[2]
        /\ rangeOfSchedule(b.pass_schedule_id) = cell[3]}

\* the rows of getLockedBookingsQuery on a cell of the grid
locksOnCell(cell) ==
    {l \in getLockedBookingsQuery :
        /\ roomOfSchedule(l.pass_schedule_id) = cell[1]
        /\ l.pass_date = cell[2]
        /\ rangeOfSchedule(l.pass_schedule_id) = cell[3]}

\* _buildPassesSchedule and the two _fillPassSchedule calls of _getPassesSchedule,
\* the booked rows first and the locked rows after them: the slots a cell can
\* end with.  The rows of a query come in any order and the last row filled on
\* a cell stays.
filledSlots(w, cell) ==
    IF locksOnCell(cell) # {}
    THEN {[status |-> "Taken", username |-> usernameOf(l.account_id)] : l \in locksOnCell(cell)}
    ELSE IF bookingsOnCell(w, cell) # {}
    THEN {[status |-> "Taken", username |-> usernameOf(b.account_id)] :
             b \in bookingsOnCell(w, cell)}
    ELSE {[status |-> "Available", username |-> ""]}

RECURSIVE gridsFrom(_, _, _)
\* the grids that differ from grid on the given cells only
gridsFrom(w, grid, cells) ==
    IF cells = {} THEN {grid}
    ELSE LET c == CHOOSE x \in cells : TRUE
         IN  UNION {gridsFrom(w, [grid EXCEPT ![c] = s], cells \ {c}) : s \in filledSlots(w, c)}

\* _getPassesSchedule: the roomPasses it can fill for week w, as cell -> slot
getPassesSchedule(w) ==
    LET grid == [c \in gridCells(w) |-> CHOOSE s \in filledSlots(w, c) : TRUE]
    IN  gridsFrom(w, grid, {c \in gridCells(w) : Cardinality(filledSlots(w, c)) > 1})

\* the repository holds two PassScheduleDTO classes.  The constructor with
\* (weekNumber, roomCount, weekDates, roomPasses, statusCode) accepts the call of
\* _buildPassesSchedule when the week number is not negative.
PassScheduleDTO_weekDates(wk) == wk >= 0

\* the constructor with (weekNumber, roomCount, weekStartDate, weekEndDate,
\* roomPasses, statusCode) takes the array of week dates as weekStartDate, and
\* isDateFormat fails on it for every week
PassScheduleDTO_weekStartEnd(wk) == FALSE

\* what a view returns when an exception was caught: null
NullSchedule == [weekNumber |-> -1, slots |-> <<>>, statusCode |-> "null"]

\* the schedules _buildPassesSchedule hands back for week w with the grids given,
\* or null when the constructor of the DTO throws
builtSchedules(w, grids) ==
    (IF PassScheduleDTO_weekDates(w)
     THEN {[weekNumber |-> w, slots |-> g, statusCode |-> "OK"] : g \in grids} ELSE {NullSchedule})
    \cup
    (IF PassScheduleDTO_weekStartEnd(w)
     THEN {[weekNumber |-> w, slots |-> g, statusCode |-> "OK"] : g \in grids} ELSE {NullSchedule})

\* new PassScheduleDTO(emptyParamEnum.Week, emptyParamEnum.RoomCount,
\* emptyParamEnum.RoomPasses, statusCode): four arguments, so that the status
\* code is taken as roomPasses (or roomPasses is undefined) and
\* roomPasses.forEach throws in either constructor; the view catches the
\* exception and returns null
emptyPassScheduleDTO(statusCode) == NullSchedule

\* the record of a view that has returned
ViewReturned(op, username, wk, dto) ==
    [week |-> wk] @@
    [Returned(op, username, 0, 0, <<0, 0>>, dto.statusCode, {}) EXCEPT !.dto = dto]

\* getPasses
LaundryDAO_getPasses(username, wk) ==
    LET personInfo == getPersonInfo(username)
        weekCorrection == wk + 1
        dtos == IF personInfo = NoPerson THEN {emptyPassScheduleDTO("InvalidUser")}
                ELSE IF personInfo.privilege # Administrator
                THEN {emptyPassScheduleDTO("InvalidPrivilege")}
                ELSE {IF dto.statusCode = "null" THEN dto ELSE [dto EXCEPT !.weekNumber = wk] :
                         dto \in builtSchedules(weekCorrection, getPassesSchedule(weekCorrection))}
    IN  /\ \E dto \in dtos : last' = ViewReturned("getPasses", username, wk, dto)
        /\ UNCHANGED <<now, ticks, account, pass_booking, pass_lock, pc, loc, transaction>>

\* getPasses called directly: no response is sent
getPasses(username, wk) ==
    LaundryDAO_getPasses(username, wk) /\ UNCHANGED res

\* mutant: the usernames stay in the slots
residentSlots_KeepUsername(grid, userBooking) ==
    [c \in DOMAIN grid |->
        IF c = <<userBooking.roomNumber, userBooking.date, userBooking.passRange>>
        THEN [status |-> "SelfBooking", username |-> ""]
        ELSE grid[c]]

\* the second _fillPassSchedule of getResidentPasses, with the caller's booked
\* pass, and the removal of the usernames
residentSlots(grid, userBooking) ==
    [c \in DOMAIN grid |->
        IF c = <<userBooking.roomNumber, userBooking.date, userBooking.passRange>>
        THEN [status |-> "SelfBooking"]
        ELSE [status |-> grid[c].status]]

\* getResidentPasses
LaundryDAO_getResidentPasses(username, wk) ==
    LET weekCorrection == wk + 1
        checkWeek == checkWeekSchedule(weekCorrection, 1)
        personInfo == getPersonInfo(username)
        dtos == IF ~checkWeek THEN {emptyPassScheduleDTO("InvalidWeek")}
                ELSE IF personInfo = NoPerson THEN {emptyPassScheduleDTO("InvalidUser")}
                ELSE IF personInfo.privilege \notin {Standard, Administrator}
                THEN {emptyPassScheduleDTO("InvalidPrivilege")}
                ELSE {IF dto.statusCode = "null" THEN dto
                      ELSE [dto EXCEPT !.weekNumber = wk,
                                       !.slots = residentSlots(dto.slots, userBooking)] :
                         dto \in builtSchedules(weekCorrection, getPassesSchedule(weekCorrection)),
                         userBooking \in getBookedPassDTOs(username)}
    IN  /\ \E dto \in dtos : last' = ViewReturned("getResidentPasses", username, wk, dto)
        /\ UNCHANGED <<now, ticks, account, pass_booking, pass_lock, pc, loc, transaction>>

\* getResidentPasses called directly: no response is sent
getResidentPasses(username, wk) ==
    LaundryDAO_getResidentPasses(username, wk) /\ UNCHANGED res

(***************************************************************************)
(* The calls on the accounts.                                              *)
(***************************************************************************)
\* loginUser; results.rows[0] is any row of the username
loginUser(username, password) ==
    LET rows == {a \in account : a.username = username}
        results == IF rows = {} THEN {"LoginFailure"}
                   ELSE {IF verifyPasswordHash(password, a.password) THEN "OK"
                         ELSE "LoginFailure" : a \in rows}
    IN  /\ \E result \in results :
              last' = [password |-> password] @@
                      Returned("loginUser", username, 0, 0, <<0, 0>>, result, {})
        /\ UNCHANGED <<now, ticks, account, pass_booking, pass_lock, pc, loc, transaction, res>>

\* the id a serial column gives the next row: one never given before
nextAccountID ==
    LET used == {a.id : a \in account} \cup {b.account_id : b \in DOMAIN pass_booking}
                    \cup {l.account_id : l \in DOMAIN pass_lock}
    IN  (CHOOSE m \in used \cup {0} : \A x \in used : x <= m) + 1

\* mutant: the username is checked before the email
registerNewUserStatus_UsernameFirst(registerDTO) ==
    IF \E a \in account : a.username = registerDTO.username THEN "ExistentUsername"
    ELSE IF \E a \in account : a.email = registerDTO.email THEN "ExistentEmail"
    ELSE "OK"

\* _registerNewUser: the status it returns
registerNewUserStatus(registerDTO) ==
    IF \E a \in account : a.email = registerDTO.email THEN "ExistentEmail"
    ELSE IF \E a \in account : a.username = registerDTO.username THEN "ExistentUsername"
    ELSE "OK"

\* _registerNewUser: the rows of account and person after it
registerNewUser(registerDTO, privilege) ==
    IF registerNewUserStatus(registerDTO) = "OK"
    THEN account \cup {[id |-> nextAccountID, username |-> registerDTO.username,
                        privilege |-> privilege, email |-> registerDTO.email,
                        password |-> generatePasswordHash(registerDTO.password)]}
    ELSE account

\* registerNewResident
registerNewResident(username, registerDTO) ==
    LET personInfo == getPersonInfo(username)
        result == IF personInfo = NoPerson THEN "InvalidUser"
                  ELSE IF personInfo.privilege # Administrator THEN "InvalidPrivilege"
                  ELSE registerNewUserStatus(registerDTO)
    IN  /\ nextAccountID <= MaxAccountID
        /\ account' = IF personInfo # NoPerson /\ personInfo.privilege = Administrator
                      THEN registerNewUser(registerDTO, Standard) ELSE account
        /\ last' = [registerDTO |-> registerDTO] @@
                   Returned("registerNewResident", username, 0, 0, <<0, 0>>, result, {})
        /\ UNCHANGED <<now, ticks, pass_booking, pass_lock, pc, loc, transaction, res>>

\* listUsers: the usernames of the accounts with Standard privilege
listUsers(username) ==
    LET personInfo == getPersonInfo(username)
        result == IF personInfo = NoPerson THEN "InvalidUser"
                  ELSE IF personInfo.privilege # Administrator THEN "InvalidPrivilege"
                  ELSE "OK"
        userInfoList == IF result = "OK"
                        THEN {a.username : a \in {x \in account : x.privilege = Standard}}
                        ELSE {}
    IN  /\ last' = [personInfo |-> userInfoList] @@
                   Returned("listUsers", username, 0, 0, <<0, 0>>, result, {})
        /\ UNCHANGED <<now, ticks, account, pass_booking, pass_lock, pc, loc, transaction, res>>

(***************************************************************************)
(* The sequential calls with the schedule views.                           *)
(***************************************************************************)
ViewPassRequests ==
    { <<"anna", 1, 1, Range0712>>, <<"bert", 1, 1, Range1217>>, <<"anna", 1, 1, Range1217>> }
ViewLockRequests == { <<"bert", 1, 1, Range0712>>, <<"anna", 1, 1, Range1217>> }
ViewDeleteRequests == { <<"admin", "bert">> }
LoginRequests == { <<"bert", "pw-bert">>, <<"bert", "pw-anna">>, <<"nobody", "pw-bert">> }
\* the weeks asked for: the relative weeks -1, 0, 1 and the weeks around the current one
ViewWeeks == {-1, 0, 1} \cup {getWeekNumber + k : k \in -2..2}
ResidentViewRequests == {"anna", "bert", "nobody"} \X ViewWeeks
PassesViewRequests == {"admin", "anna", "nobody"} \X {-2, getWeekNumber, getWeekNumber + 2}

NextView ==
    \/ Tick
    \/ \E q \in ViewPassRequests : bookPass(q[1], q[2], today + q[3], q[4])
    \/ \E q \in ViewLockRequests : lockPass(q[1], q[2], today + q[3], q[4])
    \/ \E q \in ViewDeleteRequests : deleteUser(q[1], q[2])
    \/ \E q \in LoginRequests : loginUser(q[1], q[2])
    \/ \E q \in ResidentViewRequests : getResidentPasses(q[1], q[2])
    \/ \E q \in PassesViewRequests : getPasses(q[1], q[2])

SpecView == Init /\ [][NextView]_vars

(***************************************************************************)
(* The administrator's schedule over bookings and locks of the current     *)
(* week: on tomorrow's cells, on today's and on yesterday's.               *)
(***************************************************************************)
SchedulePassRequests == { <<"anna", 1, 1, Range0712>>, <<"bert", 1, 1, Range1217>> }
ScheduleLockRequests ==
    { <<"bert", 1, 1, Range0712>>, <<"anna", 1, 1, Range1217>>,
      <<"anna", 1, 0, Range1217>>, <<"bert", 1, -1, Range1217>> }
ScheduleDeleteRequests == { <<"admin", "bert">> }
ScheduleViewRequests == {"admin"} \X {getWeekNumber - 1, getWeekNumber, getWeekNumber + 1}

NextSchedule ==
    \/ Tick
    \/ \E q \in SchedulePassRequests : bookPass(q[1], q[2], today + q[3], q[4])
    \/ \E q \in ScheduleLockRequests : lockPass(q[1], q[2], today + q[3], q[4])
    \/ \E q \in ScheduleDeleteRequests : deleteUser(q[1], q[2])
    \/ \E q \in ScheduleViewRequests : getPasses(q[1], q[2])

SpecSchedule == Init /\ [][NextSchedule]_vars

(***************************************************************************)
(* The bookings at the end of a year: the server's clock starts on         *)
(* Wednesday 2022-12-28 10:00, in week 53 of dayjs; Sunday 2023-01-01      *)
(* opens week 1.                                                           *)
(***************************************************************************)
YearEndNow == 361 * MinutesPerDay + 10 * MinutesPerHour

\* the dates asked for: yesterday, today, the Saturday of this week, the Sunday
\* and the Saturday of the week after it, and the Sunday after those
YearEndPassRequests == {"anna", "bert"} \X {1} \X {-1, 0, 3, 4, 10, 11} \X {Range1217}
YearEndCancelRequests == {"anna"} \X {1} \X {0, 3, 4, 10} \X {Range1217}

InitYearEnd ==
    /\ now = YearEndNow
    /\ ticks = 0
    /\ account = InitAccounts
    /\ pass_booking = EmptyBag
    /\ pass_lock = EmptyBag
    /\ last = NoCall
    /\ pc = [p \in Procs |-> "idle"]
    /\ loc = [p \in Procs |-> IdleLoc]
    /\ transaction = NoTransaction
    /\ res = <<>>

NextYearEnd ==
    \/ Tick
    \/ \E q \in YearEndPassRequests : bookPass(q[1], q[2], today + q[3], q[4])
    \/ \E q \in YearEndCancelRequests : cancelBookedPass(q[1], q[2], today + q[3], q[4])

SpecYearEnd == InitYearEnd /\ [][NextYearEnd]_vars

(***************************************************************************)
(* The sequential calls on the accounts.                                   *)
(***************************************************************************)
RegisterDTOs ==
    { [username |-> "carl", email |-> "carl@home", password |-> "pw-carl"],
      [username |-> "bert", email |-> "bert@home", password |-> "pw-new"],
      [username |-> "bert", email |-> "other@home", password |-> "pw-bert"],
      [username |-> "dora", email |-> "anna@home", password |-> "pw-dora"] }
RegisterRequests ==
    ({"admin"} \X RegisterDTOs)
    \cup ({"anna", "nobody"} \X {[username |-> "carl", email |-> "carl@home",
                                  password |-> "pw-carl"]})
UsersDeleteRequests == DeleteRequests \cup { <<"admin", "carl">>, <<"nobody", "bert">> }
UsersPassRequests == { <<"bert", 1, 1, Range0712>>, <<"carl", 1, 1, Range1217>> }
UsersLockRequests == { <<"bert", 1, 1, Range1217>> }
ListRequests == {"admin", "anna", "nobody"}
UsersLoginRequests == { <<"bert", "pw-bert">>, <<"bert", "pw-new">>, <<"carl", "pw-carl">> }
UsersPassesViewRequests == {"admin", "anna", "nobody"}
UsersResidentViewRequests == {"anna", "bert"}

NextUsers ==
    \/ \E q \in RegisterRequests : registerNewResident(q[1], q[2])
    \/ \E q \in UsersDeleteRequests : deleteUser(q[1], q[2])
    \/ \E username \in ListRequests : listUsers(username)
    \/ \E q \in UsersLoginRequests : loginUser(q[1], q[2])
    \/ \E q \in UsersPassRequests : bookPass(q[1], q[2], today + q[3], q[4])
    \/ \E q \in UsersLockRequests : lockPass(q[1], q[2], today + q[3], q[4])
    \/ \E username \in UsersPassesViewRequests : getPasses(username, getWeekNumber)
    \/ \E username \in UsersResidentViewRequests : getResidentPasses(username, getWeekNumber)

SpecUsers == Init /\ [][NextUsers]_vars

(***************************************************************************)
(* Concurrent requests with the administrator's view.                      *)
(***************************************************************************)
ConcBookRequests == { <<"anna", 1, 1, Range0712>> }
ConcLockRequests == { <<"bert", 1, 1, Range0712>>, <<"bert", 1, 1, Range1217>> }

NextConcView ==
    \/ Tick
    \/ \E q \in ConcBookRequests : Call(1, "bookPass", q)
    \/ \E q \in ConcLockRequests : Call(2, "lockPass", q)
    \/ \E p \in Procs : StmtLookup(p)
    \/ \E p \in Procs : StmtBookedPassID(p)
    \/ \E p \in Procs : StmtLockOwner(p)
    \/ \E p \in Procs : StmtActivePasses(p)
    \/ \E p \in Procs : StmtPeriodBookedPasses(p)
    \/ \E p \in Procs : StmtInsertBooking(p)
    \/ \E p \in Procs : StmtUnlockPersonInfo(p)
    \/ \E p \in Procs : StmtDeleteLock(p)
    \/ \E p \in Procs : StmtAddLock(p)
    \/ getPasses("admin", getWeekNumber)

SpecConcView == Init /\ [][NextConcView]_vars

(***************************************************************************)
(* The calls with a storage statement that fails: _executeQuery throws     *)
(* when the connection is down or the query is rejected.  The helpers      *)
(* rethrow and each public operation catches, logs and returns null;       *)
(* unlockPass is a public operation itself, so bookPass and lockPass, which*)
(* call it, never see what it caught and go on with their next statement,  *)
(* which the storage may accept or reject.                                 *)
(***************************************************************************)
\* the record of a call during which the statement failed (the point of the call at
\* which _executeQuery threw) has returned
ReturnedFailing(op, username, roomNumber, date, passRange, failed, result) ==
    [failed |-> failed] @@ Returned(op, username, roomNumber, date, passRange, result, {})

\* the points of bookPass at which it issues statements, in the order of the code
bookPassStatements(r) ==
    {"getPersonInfo"}
    \cup (IF bookPassDecision(Unread(r)) = "OK"
          THEN {"getBookedPassID", "getLockOwner", "getActivePasses", "getPeriodBookedPasses"}
          ELSE {})
    \cup (IF bookPassDecision(r) = "OK"
          THEN {"insertBooking", "unlockPass.getPersonInfo", "unlockPass.deleteLock", "commit"}
          ELSE {})

\* bookPass with a failing statement.  A failure before or at the insert, or at
\* the last COMMIT, is caught by bookPass, which returns null.  A failure inside
\* unlockPass is caught there; bookPass builds the OK DTO and its COMMIT then
\* succeeds or throws.  The insert was committed by the COMMIT of _getPersonInfo
\* in unlockPass when that was reached, and is open in the transaction before.
LaundryDAO_bookPassFailing(username, roomNumber, date, passRange, failed) ==
    \E lockOwnerID \in getLockOwner(date, getPassInfo(roomNumber, passRange)) :
        LET r == ReadsOf(username, roomNumber, date, passRange, lockOwnerID)
            inserted == insertBookingQuery(pass_booking, date, r.personInfo.id, r.passScheduleID)
        IN  /\ failed \in bookPassStatements(r)
            /\ \E commits \in BOOLEAN :
                  /\ \/ /\ failed \notin {"unlockPass.getPersonInfo", "unlockPass.deleteLock",
                                           "commit"}
                        /\ UNCHANGED <<pass_booking, pass_lock>>
                     \/ /\ failed = "unlockPass.getPersonInfo"
                        /\ pass_booking' \in {pass_booking, inserted}
                        /\ UNCHANGED pass_lock
                     \/ /\ failed = "unlockPass.deleteLock"
                        /\ pass_booking' = inserted
                        /\ UNCHANGED pass_lock
                     \/ /\ failed = "commit"
                        /\ pass_booking' = inserted
                        /\ pass_lock' = deleteLockQuery(pass_lock, r.personInfo.id)
                  /\ last' = ReturnedFailing("bookPass", username, roomNumber, date, passRange,
                                failed,
                                IF /\ failed \in {"unlockPass.getPersonInfo",
                                                  "unlockPass.deleteLock"}
                                   /\ commits
                                THEN "OK" ELSE "null")
            /\ UNCHANGED <<now, ticks, account, pc, loc, transaction>>

\* bookPassFailing called directly: no response is sent
bookPassFailing(username, roomNumber, date, passRange, failed) ==
    LaundryDAO_bookPassFailing(username, roomNumber, date, passRange, failed) /\ UNCHANGED res

\* the points of lockPass at which it issues statements
lockPassStatements(r) ==
    {"getPersonInfo"}
    \cup (IF lockPassDecision(Unread(r)) = "true"
          THEN {"getBookedPassID", "getLockOwner", "getActivePasses"} ELSE {})
    \cup (IF lockPassDecision(r) = "true"
          THEN {"unlockPass.getPersonInfo", "unlockPass.deleteLock", "addLock"} ELSE {})

\* lockPass with a failing statement.  After a failure inside unlockPass the
\* lock of the caller is not released and lockPass goes on to its own insert,
\* which succeeds or throws.
lockPassFailing(username, roomNumber, date, passRange, failed) ==
    \E lockOwnerID \in getLockOwner(date, getPassInfo(roomNumber, passRange)) :
        LET r == ReadsOf(username, roomNumber, date, passRange, lockOwnerID)
        IN  /\ failed \in lockPassStatements(r)
            /\ \E inserts \in BOOLEAN :
                  LET added == /\ failed \in {"unlockPass.getPersonInfo", "unlockPass.deleteLock"}
                               /\ inserts
                  IN  /\ pass_lock' =
                            IF added
                            THEN addLockQuery(pass_lock, date, r.personInfo.id, r.passScheduleID)
                            ELSE IF failed = "addLock"
                            THEN deleteLockQuery(pass_lock, r.personInfo.id)
                            ELSE pass_lock
                      /\ last' = ReturnedFailing("lockPass", username, roomNumber, date,
                                    passRange, failed, IF added THEN "true" ELSE "null")
            /\ UNCHANGED <<now, ticks, account, pass_booking, pc, loc, transaction, res>>

\* unlockPass with a failing statement: it catches and returns null
unlockPassFailing(username, failed) ==
    /\ failed \in {"getPersonInfo"}
                  \cup (IF getPersonInfo(username) # NoPerson THEN {"deleteLock"} ELSE {})
    /\ last' = ReturnedFailing("unlockPass", username, 0, 0, <<0, 0>>, failed, "null")
    /\ UNCHANGED <<now, ticks, account, pass_booking, pass_lock, pc, loc, transaction, res>>

\* getBookedPass with a failing statement: it catches and returns null
LaundryDAO_getBookedPassFailing(username, failed) ==
    /\ failed \in {"getPersonInfo"}
                  \cup (IF getPersonInfo(username) # NoPerson THEN {"getBookingQuery"} ELSE {})
    /\ last' = ReturnedFailing("getBookedPass", username, 0, 0, <<0, 0>>, failed, "null")
    /\ UNCHANGED <<now, ticks, account, pass_booking, pass_lock, pc, loc, transaction>>

\* getBookedPassFailing called directly: no response is sent
getBookedPassFailing(username, failed) ==
    LaundryDAO_getBookedPassFailing(username, failed) /\ UNCHANGED res

\* getResidentPasses with a failing statement.  When it fails inside
\* getBookedPass, that returns null and the read of userBooking.date throws;
\* every exception is caught and null returned.
getResidentPassesFailing(username, wk, failed) ==
    /\ failed \in {"getPersonInfo"}
                  \cup (IF /\ checkWeekSchedule(wk + 1, 1)
                           /\ getPersonInfo(username) # NoPerson
                        THEN {"getPassesSchedule", "getBookedPass.getPersonInfo",
                              "getBookedPass.getBookingQuery"}
                        ELSE {})
    /\ last' = [week |-> wk] @@
               ReturnedFailing("getResidentPasses", username, 0, 0, <<0, 0>>, failed, "null")
    /\ UNCHANGED <<now, ticks, account, pass_booking, pass_lock, pc, loc, transaction, res>>

FailPoints ==
    {"getPersonInfo", "getBookedPassID", "getLockOwner", "getActivePasses",
     "getPeriodBookedPasses", "insertBooking", "unlockPass.getPersonInfo",
     "unlockPass.deleteLock", "addLock", "commit", "deleteLock", "getBookingQuery",
     "getPassesSchedule", "getBookedPass.getPersonInfo", "getBookedPass.getBookingQuery"}
FailPassRequests == { <<"anna", 1, 1, Range0712>>, <<"bert", 1, 1, Range1217>>,
                      <<"nobody", 1, 1, Range0712>> }
FailLockRequests == { <<"anna", 1, 1, Range1217>>, <<"bert", 1, 1, Range0712>> }

NextFail ==
    \/ Tick
    \/ \E q \in FailPassRequests : bookPass(q[1], q[2], today + q[3], q[4])
    \/ \E q \in FailLockRequests : lockPass(q[1], q[2], today + q[3], q[4])
    \/ \E q \in FailPassRequests, failed \in FailPoints :
          bookPassFailing(q[1], q[2], today + q[3], q[4], failed)
    \/ \E q \in FailLockRequests, failed \in FailPoints :
          lockPassFailing(q[1], q[2], today + q[3], q[4], failed)
    \/ \E username \in {"anna", "nobody"}, failed \in FailPoints :
          unlockPassFailing(username, failed)
    \/ \E username \in {"anna", "nobody"}, failed \in FailPoints :
          getBookedPassFailing(username, failed)
    \/ \E username \in {"anna", "nobody"}, failed \in FailPoints :
          getResidentPassesFailing(username, getWeekNumber, failed)

SpecFail == Init /\ [][NextFail]_vars

(***************************************************************************)
(* The calls statement by statement on the shared connection.  Every helper*)
(* wraps its query in BEGIN and COMMIT, and so do the public operations     *)
(* around their writes; the storage keeps one transaction per connection:  *)
(* BEGIN inside a transaction and COMMIT outside one only warn, a rejected  *)
(* statement inside a transaction aborts it, an aborted transaction        *)
(* rejects every statement but COMMIT and ROLLBACK, and either of these    *)
(* then undoes its writes.                                                 *)
(***************************************************************************)
\* a statement as the code issues it: its text, the helper that issues it, the
\* public operation whose try block it runs in, and the row it writes
Statement(text, point, scope, row) ==
    [text |-> text, point |-> point, scope |-> scope, row |-> row]

NoRow == [date |-> 0, account_id |-> 0, pass_schedule_id |-> 0]

\* what the connection holds while a call runs: the rows it sees, its
\* transaction, whether the last statement threw, the statement the storage
\* rejected of its own accord, the operations that caught an exception, and
\* the statements sent
Connection(bookings, locks, tx) ==
    [pass_booking |-> bookings, pass_lock |-> locks, transaction |-> tx,
     thrown |-> FALSE, rejected |-> "none", caught |-> {}, statements |-> <<>>]

\* this.client.query(query): the storage runs one statement; rejected says the
\* storage refuses it for a reason of its own
clientQuery(conn, stmt, rejected) ==
    LET tx   == conn.transaction
        sent == [conn EXCEPT !.statements = Append(@, stmt.text), !.thrown = FALSE]
    IN  IF tx.state = "aborted"
        THEN IF stmt.text \in {"COMMIT", "ROLLBACK"}
             THEN [sent EXCEPT !.pass_booking = tx.pass_booking,
                               !.pass_lock = tx.pass_lock,
                               !.transaction = NoTransaction]
             ELSE [sent EXCEPT !.thrown = TRUE]
        ELSE IF rejected
        THEN [sent EXCEPT !.thrown = TRUE, !.rejected = stmt.point,
                          !.transaction.state = IF tx.state = "open" THEN "aborted" ELSE @]
        ELSE IF stmt.text = "BEGIN"
        THEN IF tx.state = "open" THEN sent
             ELSE [sent EXCEPT !.transaction =
                       [state |-> "open", pass_booking |-> conn.pass_booking,
                        pass_lock |-> conn.pass_lock]]
        ELSE IF stmt.text = "COMMIT"
        THEN [sent EXCEPT !.transaction = NoTransaction]
        ELSE IF stmt.text = "ROLLBACK"
        THEN IF tx.state = "open"
             THEN [sent EXCEPT !.pass_booking = tx.pass_booking,
                               !.pass_lock = tx.pass_lock,
                               !.transaction = NoTransaction]
             ELSE sent
        ELSE IF stmt.text = "INSERT pass_booking"
        THEN [sent EXCEPT !.pass_booking =
                  insertBookingQuery(@, stmt.row.date, stmt.row.account_id,
                                     stmt.row.pass_schedule_id)]
        ELSE IF stmt.text = "INSERT pass_lock"
        THEN [sent EXCEPT !.pass_lock =
                  addLockQuery(@, stmt.row.date, stmt.row.account_id,
                               stmt.row.pass_schedule_id)]
        ELSE IF stmt.text = "DELETE pass_lock"
        THEN [sent EXCEPT !.pass_lock = deleteLockQuery(@, stmt.row.account_id)]
        ELSE sent

\* the catch block of _executeQuery reads this.this.client: this.this is
\* undefined, the read throws a TypeError, the inner catch logs it and the
\* ROLLBACK is never sent
rollbackOnError(conn) == conn

\* _executeQuery: the statement, and the catch block before the error is
\* thrown again; the connection is up
executeQuery(conn, stmt, rejected) ==
    LET done == clientQuery(conn, stmt, rejected)
    IN  IF done.thrown THEN [rollbackOnError(done) EXCEPT !.thrown = TRUE] ELSE done

\* the statements of a call one after the other.  An exception leaves the try
\* block it was thrown in: one thrown inside unlockPass skips what is left of
\* unlockPass and the caller goes on, one thrown elsewhere ends the call.
outsideUnlockPass(stmt) == stmt.scope # "unlockPass"

RECURSIVE runStatements(_, _, _)
runStatements(conn, stmts, failed) ==
    IF stmts = <<>> THEN conn
    ELSE LET stmt == Head(stmts)
             done == executeQuery(conn, stmt, stmt.point = failed /\ stmt.text \notin
                                                    {"BEGIN", "COMMIT"})
         IN  IF ~done.thrown THEN runStatements(done, Tail(stmts), failed)
             ELSE IF stmt.scope = "unlockPass"
             THEN runStatements([done EXCEPT !.thrown = FALSE, !.caught = @ \cup {stmt.scope}],
                                SelectSeq(Tail(stmts), outsideUnlockPass), failed)
             ELSE [done EXCEPT !.caught = @ \cup {stmt.scope}]

\* a helper that reads: BEGIN, its query, COMMIT
readHelper(point, scope) ==
    << Statement("BEGIN", point, scope, NoRow),
       Statement("SELECT", point, scope, NoRow),
       Statement("COMMIT", point, scope, NoRow) >>

\* the statements of unlockPass for a username that has an account or not
unlockPassQueries(personInfo, prefix) ==
    readHelper(prefix \o "getPersonInfo", "unlockPass")
    \o (IF personInfo = NoPerson THEN <<>>
        ELSE << Statement("BEGIN", prefix \o "deleteLock", "unlockPass", NoRow),
                Statement("DELETE pass_lock", prefix \o "deleteLock", "unlockPass",
                          [NoRow EXCEPT !.account_id = personInfo.id]),
                Statement("COMMIT", prefix \o "deleteLock", "unlockPass", NoRow) >>)

\* the statements of bookPass on the reads r, in the order of the code
bookPassQueries(r) ==
    LET row == [date |-> r.date, account_id |-> r.personInfo.id,
                pass_schedule_id |-> r.passScheduleID]
    IN  readHelper("getPersonInfo", "bookPass") \o readHelper("getPassInfo", "bookPass")
        \o (IF bookPassDecision(Unread(r)) # "OK" THEN <<>>
            ELSE readHelper("getBookedPassID", "bookPass")
                 \o readHelper("getLockOwner", "bookPass")
                 \o readHelper("getActivePasses", "bookPass")
                 \o readHelper("getPeriodBookedPasses", "bookPass"))
        \o (IF bookPassDecision(r) # "OK" THEN <<>>
            ELSE << Statement("BEGIN", "insertBooking", "bookPass", NoRow),
                    Statement("INSERT pass_booking", "insertBooking", "bookPass", row) >>
                 \o unlockPassQueries(r.personInfo, "unlockPass.")
                 \o << Statement("COMMIT", "insertBooking", "bookPass", NoRow) >>)

\* the statements of lockPass on the reads r
lockPassQueries(r) ==
    LET row == [date |-> r.date, account_id |-> r.personInfo.id,
                pass_schedule_id |-> r.passScheduleID]
    IN  readHelper("getPersonInfo", "lockPass") \o readHelper("getPassInfo", "lockPass")
        \o (IF lockPassDecision(Unread(r)) # "true" THEN <<>>
            ELSE readHelper("getBookedPassID", "lockPass")
                 \o readHelper("getLockOwner", "lockPass")
                 \o readHelper("getActivePasses", "lockPass"))
        \o (IF lockPassDecision(r) # "true" THEN <<>>
            ELSE unlockPassQueries(r.personInfo, "unlockPass.")
                 \o << Statement("BEGIN", "addLock", "lockPass", NoRow),
                       Statement("INSERT pass_lock", "addLock", "lockPass", row),
                       Statement("COMMIT", "addLock", "lockPass", NoRow) >>)

\* the record of a call on the connection: what it returned, the statement the
\* storage rejected ("none" when it rejected none of its own accord) and the
\* statements the call sent
ReturnedOnConnection(op, username, roomNumber, date, passRange, failed, conn, result) ==
    [failed |-> failed, statements |-> conn.statements] @@
    Returned(op, username, roomNumber, date, passRange, result, {})

\* the state the call leaves behind
Leaves(conn) ==
    /\ pass_booking' = conn.pass_booking
    /\ pass_lock' = conn.pass_lock
    /\ transaction' = conn.transaction

\* bookPass on the connection.  Its reads see the rows of the connection; an
\* exception in its own try block makes it return null.
bookPassOnConnection(username, roomNumber, date, passRange, failed) ==
    \E lockOwnerID \in getLockOwner(date, getPassInfo(roomNumber, passRange)) :
        LET r    == ReadsOf(username, roomNumber, date, passRange, lockOwnerID)
            conn == runStatements(Connection(pass_booking, pass_lock, transaction),
                                  bookPassQueries(r), failed)
        IN  /\ failed = conn.rejected
            /\ Leaves(conn)
            /\ last' = ReturnedOnConnection("bookPass", username, roomNumber, date, passRange,
                           failed, conn,
                           IF conn.thrown THEN "null" ELSE bookPassDecision(r))
            /\ UNCHANGED <<now, ticks, account, pc, loc, res>>

\* lockPass on the connection
lockPassOnConnection(username, roomNumber, date, passRange, failed) ==
    \E lockOwnerID \in getLockOwner(date, getPassInfo(roomNumber, passRange)) :
        LET r    == ReadsOf(username, roomNumber, date, passRange, lockOwnerID)
            conn == runStatements(Connection(pass_booking, pass_lock, transaction),
                                  lockPassQueries(r), failed)
        IN  /\ failed = conn.rejected
            /\ Leaves(conn)
            /\ last' = ReturnedOnConnection("lockPass", username, roomNumber, date, passRange,
                           failed, conn,
                           IF conn.thrown THEN "null" ELSE lockPassDecision(r))
            /\ UNCHANGED <<now, ticks, account, pc, loc, res>>

\* unlockPass on the connection: it returns null when a statement threw, false
\* for an unknown username and true otherwise
unlockPassOnConnection(username, failed) ==
    LET personInfo == getPersonInfo(username)
        stmts == unlockPassQueries(personInfo, "")
        conn  == runStatements(Connection(pass_booking, pass_lock, transaction), stmts, failed)
        threw == "unlockPass" \in conn.caught
    IN  /\ failed = conn.rejected
        /\ Leaves(conn)
        /\ last' = ReturnedOnConnection("unlockPass", username, 0, 0, <<0, 0>>, failed, conn,
                       IF threw THEN "null"
                       ELSE IF personInfo = NoPerson THEN "false" ELSE "true")
        /\ UNCHANGED <<now, ticks, account, pc, loc, res>>

ConnectionPassRequests == { <<"anna", 1, 1, Range0712>>, <<"bert", 1, 1, Range0712>> }
ConnectionLockRequests == { <<"anna", 1, 1, Range1217>>, <<"anna", 1, 1, Range0712>> }
ConnectionPoints ==
    {"none", "getPersonInfo", "getPassInfo", "getBookedPassID", "getLockOwner",
     "getActivePasses", "getPeriodBookedPasses", "insertBooking",
     "unlockPass.getPersonInfo", "unlockPass.deleteLock", "addLock", "deleteLock"}

NextConnection ==
    \/ Tick
    \/ \E q \in ConnectionPassRequests, failed \in ConnectionPoints :
          bookPassOnConnection(q[1], q[2], today + q[3], q[4], failed)
    \/ \E q \in ConnectionLockRequests, failed \in ConnectionPoints :
          lockPassOnConnection(q[1], q[2], today + q[3], q[4], failed)
    \/ \E username \in {"anna", "nobody"}, failed \in ConnectionPoints :
          unlockPassOnConnection(username, failed)

SpecConnection == Init /\ [][NextConnection]_vars

(***************************************************************************)
(* The /booking endpoints of BookingApi, from the call of the controller   *)
(* on: the request passed the validators and carries a valid cookie, whose *)
(* username the handler hands to the controller.  The controller passes    *)
(* the call to the DAO and its result back.                                *)
(***************************************************************************)
\* this.sendHttpResponse(res, status, body): one response with the status
sendHttpResponse(status) == <<status>>

\* BookingErrorHandler: the handler threw, next(err) leads here; no header has
\* been sent, and the response is 503
BookingErrorHandler == sendHttpResponse(503)

\* the status codes the if-chain of a handler has a branch for, with the
\* status of the response each branch sends
handledStatusCodes(route) ==
    IF route = "bookPass"
    THEN [code \in {"OK", "InvalidUser", "InvalidPassInfo", "ExistentActivePass",
                     "PassCountExceeded", "BookedPass", "LockedPass", "InvalidDate"} |->
             IF code = "OK" THEN 200 ELSE 400]
    ELSE IF route = "getBookedPass"
    THEN [code \in {"OK", "NoBooking"} |-> IF code = "OK" THEN 200 ELSE 400]
    ELSE [code \in {"OK", "InvalidUser", "InvalidPrivilege", "InvalidWeek"} |->
             IF code = "OK" THEN 200 ELSE 400]

\* the handler of a route on the result of the controller: null makes it throw,
\* a status code of its if-chain sends the response of that branch, and after
\* any other status code the handler ends and has sent nothing
routeResponses(route, result) ==
    IF result = "null" THEN BookingErrorHandler
    ELSE IF result \in DOMAIN handledStatusCodes(route)
    THEN sendHttpResponse(handledStatusCodes(route)[result])
    ELSE <<>>

\* POST /booking/bookPass
BookingApi_bookPass(username, roomNumber, date, passRange) ==
    /\ LaundryDAO_bookPass(username, roomNumber, date, passRange)
    /\ res' = routeResponses("bookPass", last'.result)

\* POST /booking/bookPass when a statement of the DAO throws
BookingApi_bookPassFailing(username, roomNumber, date, passRange, failed) ==
    /\ LaundryDAO_bookPassFailing(username, roomNumber, date, passRange, failed)
    /\ res' = routeResponses("bookPass", last'.result)

\* GET /booking/getBookedPass
BookingApi_getBookedPass(username) ==
    /\ LaundryDAO_getBookedPass(username)
    /\ res' = routeResponses("getBookedPass", last'.result)

\* GET /booking/getBookedPass when a statement of the DAO throws
BookingApi_getBookedPassFailing(username, failed) ==
    /\ LaundryDAO_getBookedPassFailing(username, failed)
    /\ res' = routeResponses("getBookedPass", last'.result)

\* GET /booking/getResidentPasses
BookingApi_getResidentPasses(username, wk) ==
    /\ LaundryDAO_getResidentPasses(username, wk)
    /\ res' = routeResponses("getResidentPasses", last'.result)

\* GET /booking/getPasses
BookingApi_getPasses(username, wk) ==
    /\ LaundryDAO_getPasses(username, wk)
    /\ res' = routeResponses("getPasses", last'.result)

\* the requests: the cookie names anna or bert, and stays valid when the
\* account is deleted; the dates are tomorrow and yesterday, 09-12 is no
\* configured range
ApiPassRequests == {"anna", "bert"} \X {1} \X {1, -1} \X {Range0712, Range0912}
ApiLockRequests == { <<"bert", 1, 1, Range0712>> }
ApiDeleteRequests == { <<"admin", "bert">> }
ApiUsers == {"anna", "bert"}
ApiViewRequests == {"anna", "bert", "admin"} \X {getWeekNumber, getWeekNumber + 3}
ApiFailPoints == {"getPersonInfo", "insertBooking", "unlockPass.deleteLock", "getBookingQuery"}

NextApi ==
    \/ Tick
    \/ \E q \in ApiLockRequests : lockPass(q[1], q[2], today + q[3], q[4])
    \/ \E q \in ApiDeleteRequests : deleteUser(q[1], q[2])
    \/ \E q \in ApiPassRequests : BookingApi_bookPass(q[1], q[2], today + q[3], q[4])
    \/ \E q \in ApiPassRequests, failed \in ApiFailPoints :
          BookingApi_bookPassFailing(q[1], q[2], today + q[3], q[4], failed)
    \/ \E username \in ApiUsers : BookingApi_getBookedPass(username)
    \/ \E username \in ApiUsers, failed \in ApiFailPoints :
          BookingApi_getBookedPassFailing(username, failed)
    \/ \E q \in ApiViewRequests : BookingApi_getResidentPasses(q[1], q[2])
    \/ \E q \in ApiViewRequests : BookingApi_getPasses(q[1], q[2])

SpecApi == Init /\ [][NextApi]_vars

(***************************************************************************)
(* What the claims speak of, stated on the tables and the clock directly.  *)
(***************************************************************************)
\* a step in which a public call op returned (a clock advance is no call)
Called(op) == now' = now /\ last'.op = op

\* the pass_schedule ids of a requested (room, range): none when not configured
SlotsOf(roomNumber, passRange) ==
    {s.id : s \in {x \in PassSchedule : x.room = roomNumber /\ x.range = passRange}}

\* the account ids of a username
IdsOf(username) == {a.id : a \in {x \in account : x.username = username}}

HasBooking(date, slot) ==
    \E b \in DOMAIN pass_booking : b.date = date /\ b.pass_schedule_id = slot

\* lock rows on a cell whose lock-start is within lockDuration minutes of now
LiveLocksOn(date, slot) ==
    {l \in DOMAIN pass_lock :
        l.pass_date = date /\ l.pass_schedule_id = slot /\ now - l.lock_start <= 5}

\* lock rows on a cell whose lock-start is more than lockDuration minutes ago
DeadLocksOn(date, slot) ==
    {l \in DOMAIN pass_lock :
        l.pass_date = date /\ l.pass_schedule_id = slot /\ now - l.lock_start > 5}

\* the date, user, slot and elapsed-range checks of a request
DateFails(date) ==
    \/ weekTable[date] < weekTable[today]
    \/ weekTable[date] > weekTable[today] + 1
    \/ date < today
UserFails(username) == IdsOf(username) = {}
SlotFails(roomNumber, passRange) == SlotsOf(roomNumber, passRange) = {}
RangeFails(passRange) == passRange[2] < currentHour
BookedFails(roomNumber, date, passRange) ==
    \E slot \in SlotsOf(roomNumber, passRange) : HasBooking(date, slot)
LockedFails(username, roomNumber, date, passRange) ==
    \E slot \in SlotsOf(roomNumber, passRange) :
        \E l \in LiveLocksOn(date, slot) : l.account_id \notin IdsOf(username)
SelfLocked(username, roomNumber, date, passRange) ==
    \E slot \in SlotsOf(roomNumber, passRange) :
        \E l \in LiveLocksOn(date, slot) : l.account_id \in IdsOf(username)
ActiveFails(username, passRange) ==
    \E b \in DOMAIN pass_booking :
        /\ b.account_id \in IdsOf(username)
        /\ b.date >= today
        /\ \E s \in PassSchedule :
              /\ s.id = b.pass_schedule_id
              /\ \/ s.range[1] > passRange[1]
                 \/ s.range[1] = passRange[1] /\ s.range[2] >= passRange[2]

EarlyChecksPass(username, roomNumber, date, passRange) ==
    /\ ~DateFails(date)
    /\ ~UserFails(username)
    /\ ~SlotFails(roomNumber, passRange)
    /\ ~RangeFails(passRange)

(***************************************************************************)
(* C1.  Whatever the interleaving of the storage statements of concurrent  *)
(* bookPass calls, by the same or by different accounts, at most one       *)
(* Booking row exists per (date, pass-schedule slot).                      *)
(***************************************************************************)
C1_OneBookingPerCell ==
    \A b \in DOMAIN pass_booking :
        /\ pass_booking[b] <= 1
        /\ \A c \in DOMAIN pass_booking :
              (c.date = b.date /\ c.pass_schedule_id = b.pass_schedule_id) => c = b

(***************************************************************************)
(* C2.  In a sequential execution a cell that has been booked OK stays     *)
(* booked until the booking is cancelled or its owner is deleted, and      *)
(* every bookPass on it whose date, user, slot and elapsed-range checks    *)
(* pass returns BookedPass.                                                *)
(***************************************************************************)
C2_Step ==
    /\ \* bookPass OK leaves a booking row on the cell
       (Called("bookPass") /\ last'.result = "OK") =>
           \E b \in DOMAIN pass_booking' :
               /\ b.date = last'.date
               /\ b.pass_schedule_id \in SlotsOf(last'.room, last'.range)
    /\ \* a booked cell loses its booking only by a cancel of the cell or the
       \* deletion of the owner
       \A b \in DOMAIN pass_booking :
           (\A c \in DOMAIN pass_booking' :
               ~(c.date = b.date /\ c.pass_schedule_id = b.pass_schedule_id)) =>
           \/ /\ Called("cancelBookedPass") /\ last'.result = "true"
              /\ last'.date = b.date
              /\ b.pass_schedule_id \in SlotsOf(last'.room, last'.range)
           \/ /\ Called("deleteUser") /\ last'.result = "true"
              /\ b.account_id \notin {a.id : a \in account'}
    /\ \* bookPass on a booked cell returns BookedPass
       ( /\ Called("bookPass")
         /\ EarlyChecksPass(last'.user, last'.room, last'.date, last'.range)
         /\ BookedFails(last'.room, last'.date, last'.range) ) =>
           /\ last'.result = "BookedPass"
           /\ pass_booking' = pass_booking

C2_BookedOnceThenBookedPass == [][C2_Step]_vars

\* a bookPass by another account on a booked cell has returned BookedPass
C2_Witness ==
    /\ last.op = "bookPass" /\ last.result = "BookedPass"
    /\ \E b \in DOMAIN pass_booking :
          /\ b.date = last.date
          /\ b.pass_schedule_id \in SlotsOf(last.room, last.range)
          /\ b.account_id \notin IdsOf(last.user)

(***************************************************************************)
(* C3.  Whatever the interleaving of concurrent lockPass calls by          *)
(* different accounts, at most one live Lock (lock-start within 5 minutes  *)
(* of now) exists per (date, pass-schedule slot): no cell holds live locks *)
(* of two accounts.                                                        *)
(***************************************************************************)
C3_OneLiveLockPerCell ==
    \A l \in DOMAIN pass_lock : \A m \in LiveLocksOn(l.pass_date, l.pass_schedule_id) :
        now - l.lock_start <= 5 => m.account_id = l.account_id

(***************************************************************************)
(* C4.  In every reachable state, also those reached by overlapping        *)
(* lockPass calls of one account, an account owns at most one live Lock    *)
(* row across all cells.                                                   *)
(***************************************************************************)
\* the number of live lock rows of an account, duplicates counted
LiveLockRowsOf(accountID) ==
    BagCardinality([l \in {x \in DOMAIN pass_lock :
                              x.account_id = accountID /\ now - x.lock_start <= 5}
                       |-> pass_lock[l]])

C4_OneLiveLockPerAccount ==
    \A a \in account : LiveLockRowsOf(a.id) <= 1

(***************************************************************************)
(* C5.  After lockPass(A, cellX) returned true and then lockPass(A, cellY) *)
(* returned true for another cell, A holds no lock on cellX, and cellX     *)
(* shows Available in the schedule views unless another account has booked *)
(* or locked it.                                                           *)
(***************************************************************************)
\* the weeks whose grid the views are asked for
ViewedWeeks == {weekTable[today] - 1, weekTable[today], weekTable[today] + 1}

\* the cells <<date, slot>> the last call released, other than the cell it took
ReleasedElsewhere ==
    {x \in last.released : ~(x[1] = last.date /\ x[2] \in SlotsOf(last.room, last.range))}

C5_RelockReleasesPrevious ==
    (last.op = "lockPass" /\ last.result = "true") =>
        \A x \in ReleasedElsewhere :
            /\ \A l \in DOMAIN pass_lock :
                  ~(l.account_id \in IdsOf(last.user)
                    /\ l.pass_date = x[1] /\ l.pass_schedule_id = x[2])
            /\ \/ HasBooking(x[1], x[2])
               \/ \E l \in LiveLocksOn(x[1], x[2]) : l.account_id \notin IdsOf(last.user)
               \/ \A w \in ViewedWeeks :
                     LET cell == <<roomOfSchedule(x[2]), x[1], rangeOfSchedule(x[2])>>
                     IN  cell \in gridCells(w) =>
                             /\ slotStatus(w, cell) = "Available"
                             /\ \A a \in account :
                                   residentSlotStatus(a.username, w, cell) = {"Available"}

\* a second lockPass has returned true and released the lock on the first cell,
\* which the grid of the current week shows
C5_Witness ==
    /\ last.op = "lockPass" /\ last.result = "true"
    /\ \E x \in ReleasedElsewhere :
          <<roomOfSchedule(x[2]), x[1], rangeOfSchedule(x[2])>> \in gridCells(weekTable[today])
    /\ \E l \in DOMAIN pass_lock :
          l.account_id \in IdsOf(last.user) /\ l.pass_date = last.date

(***************************************************************************)
(* C6.  lockPass returns false and adds no lock when the cell already has  *)
(* a Booking, or a live Lock of another account, or a live Lock of the     *)
(* caller.                                                                 *)
(***************************************************************************)
C6_Step ==
    ( /\ Called("lockPass")
      /\ \/ BookedFails(last'.room, last'.date, last'.range)
         \/ LockedFails(last'.user, last'.room, last'.date, last'.range)
         \/ SelfLocked(last'.user, last'.room, last'.date, last'.range) ) =>
        /\ last'.result = "false"
        /\ pass_lock' = pass_lock

C6_LockRejectedOnTakenCell == [][C6_Step]_vars

\* lockPass was refused on a cell the caller itself holds a live lock on
C6_Witness ==
    /\ last.op = "lockPass" /\ last.result = "false"
    /\ SelfLocked(last.user, last.room, last.date, last.range)
    /\ ~UserFails(last.user) /\ ~RangeFails(last.range)

(***************************************************************************)
(* C7.  A Lock older than lockDuration is inert although its row stays: the*)
(* cell shows Available in both views (absent a Booking or a live Lock),   *)
(* and neither lockPass nor bookPass is rejected because of it.            *)
(***************************************************************************)
C7_View ==
    \A w \in ViewedWeeks : \A cell \in gridCells(w) :
        \A slot \in SlotsOf(cell[1], cell[3]) :
            ( /\ DeadLocksOn(cell[2], slot) # {}
              /\ LiveLocksOn(cell[2], slot) = {}
              /\ ~HasBooking(cell[2], slot) ) =>
                /\ slotStatus(w, cell) = "Available"
                /\ \A a \in account : residentSlotStatus(a.username, w, cell) = {"Available"}

C7_Step ==
    \A slot \in SlotsOf(last'.room, last'.range) :
        (DeadLocksOn(last'.date, slot) # {} /\ LiveLocksOn(last'.date, slot) = {}) =>
            /\ Called("bookPass") => last'.result # "LockedPass"
            /\ ( /\ Called("lockPass")
                 /\ ~UserFails(last'.user)
                 /\ ~RangeFails(last'.range)
                 /\ ~HasBooking(last'.date, slot)
                 /\ ~ActiveFails(last'.user, last'.range) ) => last'.result = "true"

C7_ExpiredLockIsInert == []C7_View /\ [][C7_Step]_vars

\* lockPass returned true on a cell that holds an expired lock row of another account
C7_Witness ==
    /\ last.op = "lockPass" /\ last.result = "true"
    /\ \E slot \in SlotsOf(last.room, last.range) :
          \E l \in DeadLocksOn(last.date, slot) : l.account_id \notin IdsOf(last.user)

(***************************************************************************)
(* C8.  bookPass reports the first failing check in the order InvalidDate, *)
(* InvalidUser, InvalidPassInfo (unknown slot), InvalidPassInfo (elapsed   *)
(* range), BookedPass, LockedPass, ExistentActivePass, PassCountExceeded.  *)
(***************************************************************************)
FirstFailing(username, roomNumber, date, passRange) ==
    IF DateFails(date) THEN {"InvalidDate"}
    ELSE IF UserFails(username) THEN {"InvalidUser"}
    ELSE IF SlotFails(roomNumber, passRange) THEN {"InvalidPassInfo"}
    ELSE IF RangeFails(passRange) THEN {"InvalidPassInfo"}
    ELSE IF BookedFails(roomNumber, date, passRange) THEN {"BookedPass"}
    ELSE IF LockedFails(username, roomNumber, date, passRange) THEN {"LockedPass"}
    ELSE IF ActiveFails(username, passRange) THEN {"ExistentActivePass"}
    ELSE {"PassCountExceeded", "OK"}

C8_Step ==
    Called("bookPass") =>
        last'.result \in FirstFailing(last'.user, last'.room, last'.date, last'.range)

C8_FirstFailingCheckReported == [][C8_Step]_vars

\* BookedPass was reported to a caller whose active-pass check fails too
C8_Witness ==
    /\ last.op = "bookPass" /\ last.result = "BookedPass"
    /\ ActiveFails(last.user, last.range)
    /\ BookedFails(last.room, last.date, last.range)

(***************************************************************************)
(* C9.  A bookPass that returns a status other than OK leaves the Booking  *)
(* table and the Lock table unchanged.                                     *)
(***************************************************************************)
C9_Step ==
    (Called("bookPass") /\ last'.result # "OK") =>
        pass_booking' = pass_booking /\ pass_lock' = pass_lock

C9_FailedBookPassChangesNothing == [][C9_Step]_vars

\* a refused bookPass by a caller who holds a lock, with a booking stored
C9_Witness ==
    /\ last.op = "bookPass" /\ last.result \notin {"OK", "InvalidDate", "InvalidUser"}
    /\ \E l \in DOMAIN pass_lock : l.account_id \in IdsOf(last.user)
    /\ pass_booking # EmptyBag

(***************************************************************************)
(* C10.  bookPass returns InvalidDate for every date before today and for  *)
(* every date outside the server's current calendar week and the one       *)
(* after it, also for a date with the same week number in another year.    *)
(***************************************************************************)
\* the date lies in the calendar week of today or in the week after it
InCurrentOrNextWeek(date) ==
    StartOfWeek(date) = StartOfWeek(today) \/ StartOfWeek(date) = StartOfWeek(today) + 7

C10_Step ==
    (Called("bookPass") /\ (last'.date < today \/ ~InCurrentOrNextWeek(last'.date))) =>
        last'.result = "InvalidDate"

C10_InvalidDateOutsideTwoWeeks == [][C10_Step]_vars

(***************************************************************************)
(* C11.  When the date, user, slot, elapsed-range and booked checks pass,  *)
(* bookPass on a cell with a live Lock of another account returns          *)
(* LockedPass; a live Lock of the caller never does: LockedPass is         *)
(* returned only when another account holds a live Lock on the cell.       *)
(***************************************************************************)
C11_Step ==
    /\ ( /\ Called("bookPass")
         /\ EarlyChecksPass(last'.user, last'.room, last'.date, last'.range)
         /\ ~BookedFails(last'.room, last'.date, last'.range)
         /\ LockedFails(last'.user, last'.room, last'.date, last'.range) ) =>
            last'.result = "LockedPass"
    /\ (Called("bookPass") /\ last'.result = "LockedPass") =>
            LockedFails(last'.user, last'.room, last'.date, last'.range)

C11_LockedPassOnlyForOthersLock == [][C11_Step]_vars

\* bookPass returned LockedPass on a cell another account holds a live lock on
C11_Witness ==
    /\ last.op = "bookPass" /\ last.result = "LockedPass"
    /\ LockedFails(last.user, last.room, last.date, last.range)

(***************************************************************************)
(* C12.  After bookPass returned OK, a Booking row of the caller exists on *)
(* the cell, the returned DTO carries the requested date, room and range,  *)
(* and the caller holds no Lock on the cell.                               *)
(***************************************************************************)
C12_Step ==
    (Called("bookPass") /\ last'.result = "OK") =>
        /\ \E b \in DOMAIN pass_booking' :
              /\ b.date = last'.date
              /\ b.pass_schedule_id \in SlotsOf(last'.room, last'.range)
              /\ b.account_id \in IdsOf(last'.user)
        /\ last'.dto = [date |-> last'.date, roomNumber |-> last'.room,
                        passRange |-> last'.range, statusCode |-> "OK"]
        /\ \A l \in DOMAIN pass_lock' :
              ~(/\ l.account_id \in IdsOf(last'.user)
                /\ l.pass_date = last'.date
                /\ l.pass_schedule_id \in SlotsOf(last'.room, last'.range))

C12_BookedOKStoresAndUnlocks == [][C12_Step]_vars

\* bookPass returned OK to a caller that held a lock on the cell it booked
C12_Witness ==
    /\ last.op = "bookPass" /\ last.result = "OK"
    /\ \E slot \in SlotsOf(last.room, last.range) : <<last.date, slot>> \in last.released

(***************************************************************************)
(* C13.  While an account has a Booking that is still active (dated after  *)
(* today, or today with a range whose end hour has not passed), every      *)
(* bookPass of the account on another cell whose earlier checks pass       *)
(* returns ExistentActivePass, whatever room, date and range it asks for.  *)
(***************************************************************************)
\* the bookings of a user that are still active
ActiveBookingsOf(username) ==
    {b \in DOMAIN pass_booking :
        /\ b.account_id \in IdsOf(username)
        /\ \/ b.date > today
           \/ /\ b.date = today
              /\ \E s \in PassSchedule : s.id = b.pass_schedule_id /\ s.range[2] >= currentHour}

C13_Step ==
    ( /\ Called("bookPass")
      /\ EarlyChecksPass(last'.user, last'.room, last'.date, last'.range)
      /\ ~BookedFails(last'.room, last'.date, last'.range)
      /\ ~LockedFails(last'.user, last'.room, last'.date, last'.range)
      /\ \E b \in ActiveBookingsOf(last'.user) :
            ~(b.date = last'.date /\ b.pass_schedule_id \in SlotsOf(last'.room, last'.range)) ) =>
        last'.result = "ExistentActivePass"

C13_SecondActiveBookingRefused == [][C13_Step]_vars

(***************************************************************************)
(* C14.  A bookPass whose earlier checks pass, by an account that has 6    *)
(* Bookings dated in the calendar month of the requested date, returns     *)
(* PassCountExceeded; with fewer than 6 it is not refused for this reason: *)
(* the 6th booking of a month succeeds and the 7th is refused.             *)
(***************************************************************************)
\* the number of booking rows of a user dated in the calendar month of date
MonthBookingsOf(username, date) ==
    BagCardinality([b \in {x \in DOMAIN pass_booking :
                              /\ x.account_id \in IdsOf(username)
                              /\ YearOf(x.date) = YearOf(date)
                              /\ MonthOf(x.date) = MonthOf(date)}
                       |-> pass_booking[b]])

C14_Step ==
    ( /\ Called("bookPass")
      /\ EarlyChecksPass(last'.user, last'.room, last'.date, last'.range)
      /\ ~BookedFails(last'.room, last'.date, last'.range)
      /\ ~LockedFails(last'.user, last'.room, last'.date, last'.range)
      /\ ~ActiveFails(last'.user, last'.range)
      /\ ActiveBookingsOf(last'.user) = {} ) =>
        IF MonthBookingsOf(last'.user, last'.date) >= 6
        THEN last'.result = "PassCountExceeded"
        ELSE last'.result = "OK"

C14_SeventhBookingOfMonthRefused == [][C14_Step]_vars

(***************************************************************************)
(* C15.  The elapsed-range check applies to requests for today only: for a *)
(* date after today neither bookPass nor lockPass refuses the request      *)
(* because the end hour of the range is before the current hour, so a      *)
(* request for a later date whose other checks all pass succeeds at every  *)
(* hour of the day.                                                        *)
(***************************************************************************)
\* every check but the elapsed-range check passes for the request
OtherChecksPass(username, roomNumber, date, passRange) ==
    /\ ~DateFails(date)
    /\ InCurrentOrNextWeek(date)
    /\ ~UserFails(username)
    /\ ~SlotFails(roomNumber, passRange)
    /\ ~BookedFails(roomNumber, date, passRange)
    /\ ~LockedFails(username, roomNumber, date, passRange)
    /\ ~ActiveFails(username, passRange)
    /\ ActiveBookingsOf(username) = {}

C15_Step ==
    ( /\ last'.date > today
      /\ OtherChecksPass(last'.user, last'.room, last'.date, last'.range) ) =>
        /\ Called("bookPass") => last'.result \in {"OK", "PassCountExceeded"}
        /\ ( /\ Called("lockPass")
             /\ ~SelfLocked(last'.user, last'.room, last'.date, last'.range) ) =>
                last'.result = "true"

C15_FutureDateIgnoresHour == [][C15_Step]_vars

(***************************************************************************)
(* C16.  cancelBookedPass by a known user on a configured slot returns     *)
(* true and removes the Booking on the cell exactly when such a Booking    *)
(* exists, the date is not before today, and the caller is an              *)
(* Administrator or owns the Booking; otherwise it returns false and       *)
(* removes nothing.                                                        *)
(***************************************************************************)
IsAdministrator(username) ==
    \E a \in account : a.username = username /\ a.privilege = "Administrator"

\* the booking rows on the requested cell the caller may cancel
Cancellable(username, roomNumber, date, passRange) ==
    {b \in DOMAIN pass_booking :
        /\ b.date = date
        /\ b.pass_schedule_id \in SlotsOf(roomNumber, passRange)
        /\ date >= today
        /\ IsAdministrator(username) \/ b.account_id \in IdsOf(username)}

C16_Step ==
    ( /\ Called("cancelBookedPass")
      /\ ~UserFails(last'.user)
      /\ ~SlotFails(last'.room, last'.range) ) =>
        LET rows == Cancellable(last'.user, last'.room, last'.date, last'.range)
        IN  IF rows # {}
            THEN /\ last'.result = "true"
                 /\ DOMAIN pass_booking' = DOMAIN pass_booking \ rows
                 /\ \A b \in DOMAIN pass_booking' : pass_booking'[b] = pass_booking[b]
            ELSE /\ last'.result = "false"
                 /\ pass_booking' = pass_booking

C16_CancelExactlyWhenAllowed == [][C16_Step]_vars

(***************************************************************************)
(* C17.  A caller with Standard privilege never removes a Booking of       *)
(* another account: after a cancelBookedPass of a Standard caller every    *)
(* Booking of every other account is unchanged.                            *)
(***************************************************************************)
IsStandard(username) ==
    \E a \in account : a.username = username /\ a.privilege = "Standard"

C17_Step ==
    (Called("cancelBookedPass") /\ IsStandard(last'.user)) =>
        \A b \in DOMAIN pass_booking :
            b.account_id \notin IdsOf(last'.user) =>
                b \in DOMAIN pass_booking' /\ pass_booking'[b] = pass_booking[b]

C17_StandardCancelsOwnOnly == [][C17_Step]_vars

\* a Standard caller was refused the cancellation of a cell another account has booked
C17_Witness ==
    /\ last.op = "cancelBookedPass" /\ last.result = "false"
    /\ IsStandard(last.user)
    /\ ~RangeFails(last.range) /\ last.date >= today
    /\ \E b \in DOMAIN pass_booking :
          /\ b.date = last.date
          /\ b.pass_schedule_id \in SlotsOf(last.room, last.range)
          /\ b.account_id \notin IdsOf(last.user)

(***************************************************************************)
(* C18.  getBookedPass for a known account returns OK with the date, room  *)
(* and range of a Booking of the account whenever the account has a        *)
(* Booking dated after today, or today with a range whose end hour has not *)
(* passed, and NoBooking when it has none.                                 *)
(***************************************************************************)
C18_Step ==
    (Called("getBookedPass") /\ ~UserFails(last'.user)) =>
        IF ActiveBookingsOf(last'.user) # {}
        THEN \E b \in ActiveBookingsOf(last'.user) :
                 last'.dto = [date |-> b.date,
                              roomNumber |-> roomOfSchedule(b.pass_schedule_id),
                              passRange |-> rangeOfSchedule(b.pass_schedule_id),
                              statusCode |-> "OK"]
        ELSE last'.dto.statusCode = "NoBooking"

C18_ActiveBookingIsReturned == [][C18_Step]_vars

(***************************************************************************)
(* C19.  unlockPass for a known account returns true whether or not the    *)
(* account holds a lock and leaves the account without a Lock row; on an   *)
(* account without a lock it changes nothing, so a second call gives the   *)
(* state and the result of the first.  Locks of other accounts and all     *)
(* Bookings are unchanged.                                                 *)
(***************************************************************************)
LockRowsOf(locks, username) == {l \in DOMAIN locks : l.account_id \in IdsOf(username)}

C19_Step ==
    (Called("unlockPass") /\ ~UserFails(last'.user)) =>
        /\ last'.result = "true"
        /\ LockRowsOf(pass_lock', last'.user) = {}
        /\ DOMAIN pass_lock' = DOMAIN pass_lock \ LockRowsOf(pass_lock, last'.user)
        /\ \A l \in DOMAIN pass_lock' : pass_lock'[l] = pass_lock[l]
        /\ LockRowsOf(pass_lock, last'.user) = {} => pass_lock' = pass_lock
        /\ pass_booking' = pass_booking
        /\ account' = account

C19_UnlockIsIdempotent == [][C19_Step]_vars

\* unlockPass returned true on an account without a lock while another account holds one
C19_Witness ==
    /\ last.op = "unlockPass" /\ last.result = "true"
    /\ last.released = {}
    /\ pass_lock # EmptyBag

(***************************************************************************)
(* C20.  lockPass returns false and adds no lock for every requested date  *)
(* before today, at any hour of the day.                                   *)
(***************************************************************************)
C20_Step ==
    (Called("lockPass") /\ last'.date < today) =>
        last'.result = "false" /\ pass_lock' = pass_lock

C20_NoLockOnPastDate == [][C20_Step]_vars


(***************************************************************************)
(* C21.  No result of getResidentPasses holds an occupant username in any  *)
(* slot, for the caller's SelfBooking cell or for a Taken cell, and the    *)
(* statuses it shows depend on the other accounts only through whether a   *)
(* cell is occupied, never through which account occupies it.              *)
(***************************************************************************)
\* the cells <<room, date, range>> of a pass_schedule row on a date
CellOf(date, slot) == <<roomOfSchedule(slot), date, rangeOfSchedule(slot)>>

\* a cell some existing account has booked, or holds a live lock on for today or later
Occupied(cell) ==
    \/ \E b \in DOMAIN pass_booking :
          /\ CellOf(b.date, b.pass_schedule_id) = cell
          /\ \E a \in account : a.id = b.account_id
    \/ \E l \in DOMAIN pass_lock :
          /\ CellOf(l.pass_date, l.pass_schedule_id) = cell
          /\ l.pass_date >= today /\ now - l.lock_start <= 5
          /\ \E a \in account : a.id = l.account_id

\* the cells a username has a booking on
BookedCellsOf(username) ==
    {CellOf(b.date, b.pass_schedule_id) :
        b \in {x \in DOMAIN pass_booking : x.account_id \in IdsOf(username)}}

C21_Step ==
    (Called("getResidentPasses") /\ last'.result = "OK") =>
        \A c \in DOMAIN last'.dto.slots :
            /\ DOMAIN last'.dto.slots[c] = {"status"}
            /\ c \notin BookedCellsOf(last'.user) =>
                  last'.dto.slots[c].status = IF Occupied(c) THEN "Taken" ELSE "Available"
            /\ c \in BookedCellsOf(last'.user) =>
                  last'.dto.slots[c].status \in {"SelfBooking", "Taken"}

C21_ResidentViewHidesOccupants == [][C21_Step]_vars

\* a resident view has returned with a cell of the caller's and a cell another
\* account has booked
C21_Witness ==
    /\ last.op = "getResidentPasses" /\ last.result = "OK"
    /\ \E c \in DOMAIN last.dto.slots : last.dto.slots[c].status = "SelfBooking"
    /\ \E c \in DOMAIN last.dto.slots :
          /\ last.dto.slots[c].status = "Taken"
          /\ \E b \in DOMAIN pass_booking :
                CellOf(b.date, b.pass_schedule_id) = c /\ b.account_id \notin IdsOf(last.user)

(***************************************************************************)
(* C22.  In the schedule getResidentPasses(u, w) returns, every cell of    *)
(* the week on which u owns an active Booking has status SelfBooking, no   *)
(* cell u has not booked has status SelfBooking, and the cells booked by   *)
(* other accounts or live-locked are Taken.                                *)
(***************************************************************************)
\* the cells a username has an active booking on
ActiveCellsOf(username) ==
    {CellOf(b.date, b.pass_schedule_id) : b \in ActiveBookingsOf(username)}

C22_Step ==
    (Called("getResidentPasses") /\ last'.result = "OK") =>
        \A c \in DOMAIN last'.dto.slots :
            /\ c \in ActiveCellsOf(last'.user) => last'.dto.slots[c].status = "SelfBooking"
            /\ c \notin BookedCellsOf(last'.user) =>
                  /\ last'.dto.slots[c].status # "SelfBooking"
                  /\ Occupied(c) => last'.dto.slots[c].status = "Taken"

C22_OwnActiveBookingIsSelfBooking == [][C22_Step]_vars

(***************************************************************************)
(* C23.  In the schedule getPasses returns to an Administrator, every      *)
(* Taken cell carries a non-empty username, that of the account occupying  *)
(* the cell: the owner of its Booking if it has one, also when a lock row  *)
(* exists on the same cell, otherwise the holder of its live Lock.         *)
(***************************************************************************)
\* the usernames of the existing accounts that have booked a cell
BookersOf(cell) ==
    {a.username : a \in {x \in account :
        \E b \in DOMAIN pass_booking :
            CellOf(b.date, b.pass_schedule_id) = cell /\ b.account_id = x.id}}

\* the usernames of the existing accounts that hold a live lock on a cell
LiveLockersOf(cell) ==
    {a.username : a \in {x \in account :
        \E l \in DOMAIN pass_lock :
            /\ CellOf(l.pass_date, l.pass_schedule_id) = cell
            /\ now - l.lock_start <= 5
            /\ l.account_id = x.id}}

\* a step in which a view returned, and no statement of a concurrent request ran
Viewed(op) == Called(op) /\ pc' = pc

C23_Step ==
    (Viewed("getPasses") /\ last'.result = "OK") =>
        \A c \in DOMAIN last'.dto.slots :
            last'.dto.slots[c].status = "Taken" =>
                /\ last'.dto.slots[c].username # ""
                /\ IF BookersOf(c) # {} THEN last'.dto.slots[c].username \in BookersOf(c)
                   ELSE last'.dto.slots[c].username \in LiveLockersOf(c)

C23_TakenCellNamesOccupant == [][C23_Step]_vars

(***************************************************************************)
(* C24.  For a known user with Standard or Administrator privilege,        *)
(* getResidentPasses(u, w) returns InvalidWeek when w lies outside         *)
(* [current-1, current+1], current being getWeekNumber(), and a schedule   *)
(* with status OK when w lies inside it; getPasses for an Administrator    *)
(* has no such restriction.                                                *)
(***************************************************************************)
C24_Step ==
    /\ (Called("getResidentPasses") /\ (IsStandard(last'.user) \/ IsAdministrator(last'.user))) =>
          IF last'.week < getWeekNumber - 1 \/ last'.week > getWeekNumber + 1
          THEN last'.result = "InvalidWeek"
          ELSE last'.result = "OK" /\ last'.dto.weekNumber = last'.week
    /\ (Called("getPasses") /\ IsAdministrator(last'.user)) =>
          last'.result # "InvalidWeek"

C24_InvalidWeekOutsideThreeWeeks == [][C24_Step]_vars

(***************************************************************************)
(* C25.  getResidentPasses accepts the relative week values -1, 0 and 1    *)
(* the endpoint admits: for a known resident each of them returns a week   *)
(* grid with status OK, at any time of the year.                           *)
(***************************************************************************)
C25_Step ==
    (Called("getResidentPasses") /\ IsStandard(last'.user) /\ last'.week \in {-1, 0, 1}) =>
        /\ last'.result = "OK"
        /\ DOMAIN last'.dto.slots # {}

C25_RelativeWeeksAccepted == [][C25_Step]_vars

(***************************************************************************)
(* C26.  Every administrator-only operation (registerNewResident,          *)
(* listUsers, deleteUser, getPasses) issued by a username that is unknown  *)
(* or not an Administrator changes no stored row and returns InvalidUser   *)
(* (unknown issuer) or InvalidPrivilege (non-administrator issuer),        *)
(* deleteUser returning false in both cases.                               *)
(***************************************************************************)
AdministratorOnly == {"registerNewResident", "listUsers", "deleteUser", "getPasses"}

C26_Step ==
    (now' = now /\ last'.op \in AdministratorOnly /\ ~IsAdministrator(last'.user)) =>
        /\ account' = account /\ pass_booking' = pass_booking /\ pass_lock' = pass_lock
        /\ last'.result = IF last'.op = "deleteUser" THEN "false"
                          ELSE IF UserFails(last'.user) THEN "InvalidUser"
                          ELSE "InvalidPrivilege"

C26_AdministratorOnlyRefused == [][C26_Step]_vars

(***************************************************************************)
(* C27.  Usernames and emails stay unique: a registration with an email    *)
(* already stored returns ExistentEmail, otherwise one with a username     *)
(* already stored returns ExistentUsername, both inserting nothing, so     *)
(* after any sequence of registrations and deletions no two accounts share *)
(* a username and no two persons share an email.                           *)
(***************************************************************************)
\* no two rows of account and person share a username, an email or an id
UniqueAccounts(rows) ==
    \A a, b \in rows :
        (a.username = b.username \/ a.email = b.email \/ a.id = b.id) => a = b

C27_Step ==
    /\ UniqueAccounts(account')
    /\ (Called("registerNewResident") /\ IsAdministrator(last'.user)) =>
          LET registerDTO == last'.registerDTO
          IN  IF \E a \in account : a.email = registerDTO.email
              THEN last'.result = "ExistentEmail" /\ account' = account
              ELSE IF \E a \in account : a.username = registerDTO.username
              THEN last'.result = "ExistentUsername" /\ account' = account
              ELSE /\ last'.result = "OK"
                   /\ \E a \in account' \ account :
                         /\ a.username = registerDTO.username
                         /\ a.email = registerDTO.email
                         /\ a.privilege = "Standard"
                         /\ account' = account \cup {a}

C27_UsernamesAndEmailsUnique == [][C27_Step]_vars

\* a registration has been refused for its email while its username was stored
\* too, after an account was deleted and its username registered again
C27_Witness ==
    /\ last.op = "registerNewResident" /\ last.result = "ExistentEmail"
    /\ \E a \in account : a.username = last.registerDTO.username
    /\ \E a \in account : a.username = "bert" /\ a.id # 2

(***************************************************************************)
(* C28.  After deleteUser(admin, U) returned true, loginUser(U, p) returns *)
(* LoginFailure for every password p, and no cell is shown Taken or        *)
(* SelfBooking in a getPasses or getResidentPasses result on account of a  *)
(* Booking U owned.                                                        *)
(***************************************************************************)
C28_Step ==
    /\ \* a deletion removes the account and every booking it owned
       (Called("deleteUser") /\ last'.result = "true") =>
           /\ account' \subseteq account /\ account' # account
           /\ \A a \in account \ account' :
                 /\ \A x \in account' : x.username # a.username
                 /\ \A b \in DOMAIN pass_booking' : b.account_id # a.id
    /\ \* no booking is left that a deleted account owned
       \A b \in DOMAIN pass_booking' : \E a \in account' : a.id = b.account_id
    /\ \* a username without account cannot log in, whatever the password
       (Called("loginUser") /\ UserFails(last'.user)) => last'.result = "LoginFailure"
    /\ \* a view shows a cell taken only for a row of an existing account
       (now' = now /\ last'.op \in {"getPasses", "getResidentPasses"} /\ last'.result = "OK") =>
           \A c \in DOMAIN last'.dto.slots :
               last'.dto.slots[c].status \in {"Taken", "SelfBooking"} => Occupied(c)

C28_DeletedUserIsGone == [][C28_Step]_vars

\* the password of a deleted account has been refused while another account
\* still has a booking
C28_Witness ==
    /\ last.op = "loginUser" /\ last.result = "LoginFailure"
    /\ last.user = "bert" /\ last.password = "pw-bert"
    /\ \A a \in account : a.username # "bert"
    /\ pass_booking # EmptyBag

(***************************************************************************)
(* C29.  Every Booking row and every Lock row references an existing       *)
(* account in every reachable state: a deleteUser that returned true has   *)
(* removed all Bookings and all Locks of the target, and leaves no row     *)
(* owned by the deleted account.                                           *)
(***************************************************************************)
C29_RowsReferenceAccounts ==
    /\ \A b \in DOMAIN pass_booking : \E a \in account : a.id = b.account_id
    /\ \A l \in DOMAIN pass_lock : \E a \in account : a.id = l.account_id

(***************************************************************************)
(* C30.  If the connection is down or a storage statement issued during a  *)
(* public DAO operation fails, that operation returns null, never true,    *)
(* false, or a DTO carrying OK or a business status.                       *)
(***************************************************************************)
C30_Step ==
    (now' = now /\ "failed" \in DOMAIN last') => last'.result = "null"

C30_FailedStatementGivesNull == [][C30_Step]_vars

(***************************************************************************)
(* C31.  A statement rejected inside a transaction is followed by ROLLBACK.*)
(***************************************************************************)
\* a step in which a call on the connection returned
ReturnedOnConnectionStep == now' = now /\ "statements" \in DOMAIN last'

\* C31: when the storage rejects a statement of a call while the connection is
\* up, the call leaves the connection outside every transaction, and the
\* call after it, if the storage rejects none of its statements, does not
\* return null.
C31_Step ==
    ReturnedOnConnectionStep =>
        /\ last'.failed # "none" => transaction'.state = "idle"
        /\ ("statements" \in DOMAIN last /\ last.failed # "none" /\ last'.failed = "none")
              => last'.result # "null"
C31_RollbackAfterRejectedStatement == [][C31_Step]_vars

(***************************************************************************)
(* C32.  No cell is booked by one account and locked by another.           *)
(***************************************************************************)
\* C32: in every reachable state, also between the statements of a lockPass and
\* a bookPass that interleave on one cell, no cell has a Booking row of one
\* account and a live Lock row of a different account.
C32_NoBookingUnderForeignLock ==
    \A b \in DOMAIN pass_booking, l \in DOMAIN pass_lock :
        ( /\ l.pass_date = b.date
          /\ l.pass_schedule_id = b.pass_schedule_id
          /\ LockIsLive(l) )
        => l.account_id = b.account_id

(***************************************************************************)
(* C33.  bookPass releases no lock on another cell.                        *)
(***************************************************************************)
\* C33: a bookPass that returns OK for a cell leaves every Lock row on every
\* other cell as it was, the rows of the caller and of every other account.
C33_Step ==
    (Called("bookPass") /\ last'.result = "OK") =>
        \A l \in DOMAIN pass_lock :
            ~(/\ l.pass_date = last'.date
              /\ l.pass_schedule_id \in SlotsOf(last'.room, last'.range))
            => /\ l \in DOMAIN pass_lock'
               /\ pass_lock'[l] = pass_lock[l]
C33_BookPassKeepsOtherLocks == [][C33_Step]_vars

(***************************************************************************)
(* C34.  A lockPass that does not return true changes no lock.             *)
(***************************************************************************)
\* C34: a lockPass call that returns false or null leaves the Lock rows as they
\* were, the lock the caller held on another cell among them.
C34_Step ==
    (ReturnedOnConnectionStep /\ last'.op = "lockPass" /\ last'.result # "true")
        => pass_lock' = pass_lock
C34_RefusedLockPassKeepsLocks == [][C34_Step]_vars

(***************************************************************************)
(* C35.  The cells of the schedule of getPasses.                           *)
(***************************************************************************)
\* the Monday of ISO week w of the year of today: 4 January lies in week 1
MondayOfWeek(w) ==
    LET jan4 == YearStart(yearTable[today]) + 3
    IN  jan4 - ((WeekdayOf(jan4) + 6) % 7) + 7 * (w - 1)

\* the cells of the grid of week w: every configured room and range on the
\* seven days from Monday to Sunday
WeekGrid(w) ==
    {<<s.room, d, s.range>> : s \in PassSchedule, d \in MondayOfWeek(w)..(MondayOfWeek(w) + 6)}

\* C35: in the schedule getPasses returns for week w the grid is the configured
\* rooms and ranges on the seven days of w; a cell is Taken exactly when an
\* account has a Booking on it or a live Lock dated today or later, and every
\* other cell is Available with an empty username.
C35_Step ==
    (Called("getPasses") /\ last'.result = "OK") =>
        /\ DOMAIN last'.dto.slots = WeekGrid(last'.week)
        /\ \A c \in DOMAIN last'.dto.slots :
              IF Occupied(c)
              THEN last'.dto.slots[c].status = "Taken"
              ELSE last'.dto.slots[c] = [status |-> "Available", username |-> ""]
InThisOrFollowingWeek(date) ==
    StartOfWeek(date) \in {StartOfWeek(today), StartOfWeek(today) + 7}

\* C36: bookPass does not return InvalidDate for a date that is today or later
\* and lies in the current calendar week of the server or in the following
\* one, also when the following week belongs to the next year.
C36_Step ==
    ( /\ Called("bookPass")
      /\ last'.date >= today
      /\ InThisOrFollowingWeek(last'.date) )
    => last'.result # "InvalidDate"
C36_NextWeekAcrossYearEndAccepted == [][C36_Step]_vars

(***************************************************************************)
(* C37.  bookPass reads, inserts and releases in one transaction.          *)
(***************************************************************************)
\* the places of a statement in the statements a call sent
PlacesOf(statements, text) == {i \in DOMAIN statements : statements[i] = text}

\* no COMMIT is sent from place i to place j
NoCommitBetween(statements, i, j) == \A k \in i..j : statements[k] # "COMMIT"

\* C37: in a bookPass that returns OK no COMMIT is sent between its first
\* validation read and its insert of the Booking, and none between the insert
\* and the delete that releases the lock: the reads, the insert and the
\* release are in one transaction.
C37_Step ==
    ( /\ ReturnedOnConnectionStep
      /\ last'.op = "bookPass" /\ last'.result = "OK" /\ last'.failed = "none" )
    => \A r \in PlacesOf(last'.statements, "SELECT"),
          i \in PlacesOf(last'.statements, "INSERT pass_booking"),
          d \in PlacesOf(last'.statements, "DELETE pass_lock") :
            /\ NoCommitBetween(last'.statements, r, i)
            /\ NoCommitBetween(last'.statements, i, d)
C37_BookPassIsOneTransaction == [][C37_Step]_vars

(***************************************************************************)
(* C38.  Every result of the controller gets one HTTP response.            *)
(***************************************************************************)
\* the routes of the claim
BookingRoutes == {"bookPass", "getBookedPass", "getResidentPasses", "getPasses"}

\* C38: whatever the controller returns to the handlers of bookPass,
\* getBookedPass, getResidentPasses and getPasses, the request gets exactly one
\* response: 200 for OK, a 4xx for every other status code and a 5xx for null.
C38_Step ==
    (now' = now /\ last'.op \in BookingRoutes) =>
        /\ Len(res') = 1
        /\ IF last'.result = "OK" THEN res'[1] = 200
           ELSE IF last'.result = "null" THEN res'[1] \in 500..599
           ELSE res'[1] \in 400..499
C38_OneResponsePerResult == [][C38_Step]_vars

=============================================================================
